---- MODULE Spec2Model ----
(***************************************************************************)
(* A model of the proluofire-im channel plugin: the delivery pipeline      *)
(* (send.ts), the target normalizer (protocol.ts) and the connection       *)
(* client (client.ts).  Strings are sequences of one-character strings so  *)
(* that prefix tests, lower-casing and substring tests are computed as the *)
(* code computes them.                                                     *)
(***************************************************************************)
EXTENDS Integers, Sequences, FiniteSets, TLC

VARIABLES
    now,             \* Date.now(), in ms
    rateLimitState,  \* send.ts: Map<normalized target, {count, resetAt}>
    lastOutboundAt,  \* runtime.ts: runtimeStates.get("default").lastOutboundAt
    calls,           \* in-flight sendMessageProluofireIm calls, one per caller
    retry,           \* the in-flight sendMessageWithRetry call
    obs,             \* per target: the window as the rate-limit contract defines it
    client,          \* client.ts: connected, ws, reconnectTimer, reconnectAttempt, closing
    sock,            \* the WebSocket objects and the closure state of their handlers
    hist,            \* history of the connection: pending reconnect obligations
    http,            \* client.ts: the in-flight client.sendMessage call
    eval,            \* the call of a pure function under study: its input and result
    gw,              \* actions.ts: per account, the position of gateway.startAccount
    webhookTargets,  \* monitor.ts: Map<path, WebhookTarget[]>, as lists of account ids
    clientInstances, \* webhook.ts: the account ids that have a client entry
    req,             \* monitor.ts: the webhook request being handled
    cfg,             \* the account's configuration, as the message handler reads it
    im,              \* monitor.ts: the inbound message being handled
    pairing,         \* the sender ids with an outstanding pairing request
    replies,         \* per sender id, the pairing replies attempted so far
    errorLog         \* the sender ids runtime.error logged a failed pairing reply for

vars == << now, rateLimitState, lastOutboundAt, calls, retry, obs, client, sock, hist, http, eval,
          gw, webhookTargets, clientInstances, req, cfg, im, pairing,
          replies, errorLog >>

sendVars == << now, rateLimitState, lastOutboundAt, calls, retry, obs >>

clientVars == << client, sock, hist >>

apiVars == << http >>

hookVars == << gw, webhookTargets, clientInstances, req >>

inboundVars == << cfg, im, pairing, replies, errorLog >>

\* What the steps of each part leave alone.
nonSendVars == << clientVars, apiVars, eval, hookVars, inboundVars >>

nonClientVars == << sendVars, apiVars, eval, hookVars, inboundVars >>

nonApiVars == << sendVars, clientVars, eval, hookVars, inboundVars >>

nonEvalVars == << sendVars, clientVars, apiVars, hookVars, inboundVars >>

nonHookVars == << sendVars, clientVars, apiVars, eval, inboundVars >>

nonInboundVars == << sendVars, clientVars, apiVars, eval, hookVars >>

(***************************************************************************)
(* Strings                                                                 *)
(***************************************************************************)

UpperToLower ==
    ("A" :> "a") @@ ("B" :> "b") @@ ("C" :> "c") @@ ("D" :> "d") @@ ("E" :> "e") @@
    ("F" :> "f") @@ ("G" :> "g") @@ ("H" :> "h") @@ ("I" :> "i") @@ ("J" :> "j") @@
    ("K" :> "k") @@ ("L" :> "l") @@ ("M" :> "m") @@ ("N" :> "n") @@ ("O" :> "o") @@
    ("P" :> "p") @@ ("Q" :> "q") @@ ("R" :> "r") @@ ("S" :> "s") @@ ("T" :> "t") @@
    ("U" :> "u") @@ ("V" :> "v") @@ ("W" :> "w") @@ ("X" :> "x") @@ ("Y" :> "y") @@
    ("Z" :> "z")

Digits == <<"0","1","2","3","4","5","6","7","8","9">>

Whitespace == {" ", "\t", "\n"}

toLowerCase(s) ==
    [i \in 1..Len(s) |-> IF s[i] \in DOMAIN UpperToLower THEN UpperToLower[s[i]] ELSE s[i]]

includes(s, sub) ==
    \E i \in 1..(Len(s) - Len(sub) + 1) : SubSeq(s, i, i + Len(sub) - 1) = sub

startsWith(s, prefix) ==
    Len(s) >= Len(prefix) /\ SubSeq(s, 1, Len(prefix)) = prefix

slice(s, n) == SubSeq(s, n + 1, Len(s))

trim(s) ==
    LET keep == {i \in 1..Len(s) : s[i] \notin Whitespace}
    IN  IF keep = {} THEN <<>>
        ELSE SubSeq(s, CHOOSE i \in keep : \A j \in keep : i <= j,
                       CHOOSE i \in keep : \A j \in keep : i >= j)

RECURSIVE numberToString(_)
numberToString(n) ==
    IF n < 10 THEN <<Digits[n + 1]>>
    ELSE numberToString(n \div 10) \o <<Digits[(n % 10) + 1]>>

ceilDiv(a, b) == (a + b - 1) \div b

(***************************************************************************)
(* protocol.ts: the target normalizer                                      *)
(***************************************************************************)

ChannelPrefix == <<"p","r","o","l","u","o","f","i","r","e","-","i","m",":">>
UserPrefix == <<"u","s","e","r",":">>
GroupPrefix == <<"g","r","o","u","p",":">>

stripProluofireImPrefix(value) ==
    trim(IF startsWith(toLowerCase(value), ChannelPrefix)
         THEN slice(value, Len(ChannelPrefix)) ELSE value)

isNumericId(value) ==
    Len(value) > 0 /\ \A i \in 1..Len(value) : \E d \in 1..Len(Digits) : value[i] = Digits[d]

stripSigil(s) ==
    IF Len(s) > 0 /\ s[1] \in {"@", "#"} THEN slice(s, 1) ELSE s

normalizeProluofireImUserId(value) ==
    LET trimmed == stripProluofireImPrefix(value)
        lower == toLowerCase(trimmed)
    IN  IF trimmed = <<>> THEN <<>>
        ELSE IF trimmed = <<"*">> THEN <<"*">>
        ELSE IF startsWith(lower, UserPrefix) THEN trim(slice(lower, Len(UserPrefix)))
        ELSE toLowerCase(trim(stripSigil(trimmed)))

normalizeProluofireImGroupId(value) ==
    LET trimmed == stripProluofireImPrefix(value)
        lower == toLowerCase(trimmed)
    IN  IF trimmed = <<>> THEN <<>>
        ELSE IF trimmed = <<"*">> THEN <<"*">>
        ELSE IF startsWith(lower, GroupPrefix) THEN trim(slice(lower, Len(GroupPrefix)))
        ELSE toLowerCase(trim(stripSigil(trimmed)))

normalizeTarget(target) ==
    LET trimmed == stripProluofireImPrefix(target)
        lower == toLowerCase(trimmed)
    IN  IF trimmed = <<>> THEN <<>>
        ELSE IF startsWith(lower, UserPrefix) THEN
            LET id == normalizeProluofireImUserId(trimmed)
            IN  IF id # <<>> THEN <<"@">> \o id ELSE <<>>
        ELSE IF startsWith(lower, GroupPrefix) THEN
            LET id == normalizeProluofireImGroupId(trimmed)
            IN  IF id # <<>> THEN <<"#">> \o id ELSE <<>>
        ELSE IF trimmed[1] \in {"@", "#"} THEN trimmed
        ELSE IF isNumericId(trimmed) THEN <<"#">> \o trimmed
        ELSE trimmed

(***************************************************************************)
(* send.ts: the rate limiter and sendMessageProluofireIm                   *)
(***************************************************************************)

RATE_LIMIT_WINDOW_MS == 60000
RATE_LIMIT_MAX_MESSAGES == 20

\* How many windows of time the model spans.
MaxWindows == 1

\* The instants at which the clock is observed: the start of each window, one
\* millisecond after it and one millisecond before the next.
TimePoints ==
    {k * RATE_LIMIT_WINDOW_MS + e :
        k \in 0..MaxWindows, e \in {0, 1, RATE_LIMIT_WINDOW_MS - 1}}

MaxTime == CHOOSE t \in TimePoints : \A u \in TimePoints : u <= t

\* The raw targets callers pass: a bare numeric room id, the same room with a
\* group: prefix in mixed case, and a room id that contains "502".
Room42 == <<"4","2">>
Group42 == <<"G","r","o","u","p",":","4","2">>
Room502 == <<"5","0","2">>

Targets == {Room42, Group42, Room502}

\* The targets of the plain senders: two spellings of one room.
SendTargets == {Room42, Group42}

Callers == {"c1", "c2"}

NoError == <<>>

FailedToSendText == <<"F","a","i","l","e","d"," ","t","o"," ","s","e","n","d"," ","m","e","s","s","a","g","e"," ","t","o"," ">>
ColonText == <<":"," ">>
RateLimitText == <<"R","a","t","e"," ","l","i","m","i","t"," ","e","x","c","e","e","d","e","d"," ","f","o","r"," ">>
TryAgainText == <<"."," ","T","r","y"," ","a","g","a","i","n"," ","i","n"," ">>
SecondsText == <<"s">>
AfterRetriesText == <<"F","a","i","l","e","d"," ","t","o"," ","s","e","n","d"," ","m","e","s","s","a","g","e"," ","a","f","t","e","r"," ","r","e","t","r","i","e","s">>

\* checkRateLimit with the expiry test off by one (now > resetAt).
checkRateLimitLateExpiry(m, target, t) ==
    IF target \notin DOMAIN m THEN
        [state |-> m @@ (target :> [count |-> 0, resetAt |-> t + RATE_LIMIT_WINDOW_MS]),
         error |-> NoError]
    ELSE IF t > m[target].resetAt THEN
        [state |-> [m EXCEPT ![target] = [count |-> 0, resetAt |-> t + RATE_LIMIT_WINDOW_MS]],
         error |-> NoError]
    ELSE IF m[target].count >= RATE_LIMIT_MAX_MESSAGES THEN
        [state |-> m,
         error |-> RateLimitText \o target \o TryAgainText
                   \o numberToString(ceilDiv(m[target].resetAt - t, 1000)) \o SecondsText]
    ELSE [state |-> m, error |-> NoError]

\* checkRateLimit(target) at time t on the map m: the map afterwards, and the
\* message of the error it throws (NoError when it returns).
checkRateLimit(m, target, t) ==
    IF target \notin DOMAIN m THEN
        [state |-> m @@ (target :> [count |-> 0, resetAt |-> t + RATE_LIMIT_WINDOW_MS]),
         error |-> NoError]
    ELSE IF t >= m[target].resetAt THEN
        [state |-> [m EXCEPT ![target] = [count |-> 0, resetAt |-> t + RATE_LIMIT_WINDOW_MS]],
         error |-> NoError]
    ELSE IF m[target].count >= RATE_LIMIT_MAX_MESSAGES THEN
        [state |-> m,
         error |-> RateLimitText \o target \o TryAgainText
                   \o numberToString(ceilDiv(m[target].resetAt - t, 1000)) \o SecondsText]
    ELSE [state |-> m, error |-> NoError]

updateRateLimit(m, target) ==
    IF target \in DOMAIN m THEN [m EXCEPT ![target].count = @ + 1] ELSE m

\* The catch block of sendMessageProluofireIm: the error is rethrown with the
\* raw target in front of its message.
wrapSendError(target, errorMsg) == FailedToSendText \o target \o ColonText \o errorMsg

\* sendMessageProluofireIm up to its first await: normalizeTarget, then
\* checkRateLimit.  error is the message of the error the call rejects with.
sendCheck(m, target, t) ==
    LET r == checkRateLimit(m, normalizeTarget(target), t)
    IN  [state |-> r.state,
         error |-> IF r.error = NoError THEN NoError ELSE wrapSendError(target, r.error)]

\* The window of a target as the contract states it: it starts at the first
\* call, and a call made WINDOW ms or more after its start begins a new one.
\* by[c] is the number of the window's sends that caller c made.
obsExpired(o, target, t) ==
    target \notin DOMAIN o \/ t >= o[target].start + RATE_LIMIT_WINDOW_MS

obsAtCall(o, target, t) ==
    IF obsExpired(o, target, t)
    THEN [n \in (DOMAIN o) \cup {target} |->
            IF n = target THEN [start |-> t, sent |-> 0, by |-> [c \in Callers |-> 0]]
            ELSE o[n]]
    ELSE o

idleCall == [pc |-> "idle", target |-> <<>>, error |-> NoError, expect |-> "none"]

SendBegin(c, target) ==
    /\ calls[c].pc = "idle"
    /\ LET r == sendCheck(rateLimitState, target, now)
           n == normalizeTarget(target)
           o == obsAtCall(obs, n, now)
       IN  /\ rateLimitState' = r.state
           /\ obs' = o
           /\ calls' = [calls EXCEPT ![c] =
                  [pc |-> IF r.error = NoError THEN "checked" ELSE "failed",
                   target |-> target,
                   error |-> r.error,
                   expect |-> IF o[n].sent < RATE_LIMIT_MAX_MESSAGES THEN "ok" ELSE "rate-limited"]]
    /\ UNCHANGED << now, lastOutboundAt, retry, nonSendVars >>

\* The rest of sendMessageProluofireIm, after the await: the (stubbed) send,
\* updateRateLimit and markOutboundMessage.
SendFinish(c) ==
    /\ calls[c].pc = "checked"
    /\ LET n == normalizeTarget(calls[c].target)
       IN  /\ rateLimitState' = updateRateLimit(rateLimitState, n)
           /\ obs' = [obs EXCEPT ![n].sent = @ + 1, ![n].by[c] = @ + 1]
    /\ lastOutboundAt' = now
    /\ calls' = [calls EXCEPT ![c].pc = "ok"]
    /\ UNCHANGED << now, retry, nonSendVars >>

SendReturn(c) ==
    /\ calls[c].pc \in {"ok", "failed"}
    /\ calls' = [calls EXCEPT ![c] = idleCall]
    /\ UNCHANGED << now, rateLimitState, lastOutboundAt, retry, obs, nonSendVars >>

Tick ==
    /\ \E t \in TimePoints : t > now /\ now' = t
    /\ UNCHANGED << rateLimitState, lastOutboundAt, calls, retry, obs, nonSendVars >>

(***************************************************************************)
(* send.ts: sendMessageWithRetry                                           *)
(***************************************************************************)

NetworkMarker == <<"n","e","t","w","o","r","k">>
TimeoutMarker == <<"t","i","m","e","o","u","t">>
ConnRefusedMarker == <<"e","c","o","n","n","r","e","f","u","s","e","d">>
ServerErrorMarker == <<"s","e","r","v","e","r"," ","e","r","r","o","r">>
Marker503 == <<"5","0","3">>
Marker502 == <<"5","0","2">>
RateLimitMarker == <<"r","a","t","e"," ","l","i","m","i","t">>
NotFoundMarker == <<"n","o","t"," ","f","o","u","n","d">>
UnauthorizedMarker == <<"u","n","a","u","t","h","o","r","i","z","e","d">>
ForbiddenMarker == <<"f","o","r","b","i","d","d","e","n">>
InvalidMarker == <<"i","n","v","a","l","i","d">>

\* isRetryableError with the rate-limit test left out, so that a rate-limit
\* error falls through to the default.
isRetryableErrorNoRateLimit(errorMessage) ==
    LET message == toLowerCase(errorMessage)
    IN  IF includes(message, NetworkMarker) \/ includes(message, TimeoutMarker)
           \/ includes(message, ConnRefusedMarker) THEN TRUE
        ELSE IF includes(message, ServerErrorMarker) \/ includes(message, Marker503)
           \/ includes(message, Marker502) THEN TRUE
        ELSE IF includes(message, NotFoundMarker) \/ includes(message, UnauthorizedMarker)
           \/ includes(message, ForbiddenMarker) \/ includes(message, InvalidMarker) THEN FALSE
        ELSE TRUE

isRetryableError(errorMessage) ==
    LET message == toLowerCase(errorMessage)
    IN  IF includes(message, NetworkMarker) \/ includes(message, TimeoutMarker)
           \/ includes(message, ConnRefusedMarker) THEN TRUE
        ELSE IF includes(message, ServerErrorMarker) \/ includes(message, Marker503)
           \/ includes(message, Marker502) THEN TRUE
        ELSE IF includes(message, RateLimitMarker) THEN FALSE
        ELSE IF includes(message, NotFoundMarker) \/ includes(message, UnauthorizedMarker)
           \/ includes(message, ForbiddenMarker) \/ includes(message, InvalidMarker) THEN FALSE
        ELSE TRUE

min(a, b) == IF a < b THEN a ELSE b

RECURSIVE pow2(_)
pow2(n) == IF n = 0 THEN 1 ELSE 2 * pow2(n - 1)

retryDelayMs(attempt) == min(1000 * pow2(attempt), 10000)

\* The largest maxRetries a caller passes (3 is the default).
MaxRetriesArg == 3

\* How many times sendMessageWithRetry is called in one behaviour.
MaxRuns == 2

idleRetry ==
    [pc |-> "idle", target |-> <<>>, maxRetries |-> 0, attempt |-> 0,
     lastError |-> NoError, thrown |-> NoError, wakeAt |-> 0,
     sends |-> 0, lastFailure |-> NoError, runs |-> 0]

\* The error sendMessageWithRetry throws once its loop is over.
throwAfterLoop(r) ==
    [r EXCEPT !.pc = "thrown",
              !.thrown = IF r.lastError # NoError THEN r.lastError ELSE AfterRetriesText]

\* The catch block of the loop, for an attempt that failed with errorMessage.
retryCatchFirstError(r, errorMessage, t) ==
    LET r1 == [r EXCEPT !.lastError = IF r.lastError = NoError THEN errorMessage ELSE @,
                        !.lastFailure = errorMessage]
    IN  IF ~isRetryableError(errorMessage) THEN
            [r1 EXCEPT !.pc = "thrown", !.thrown = r1.lastError]
        ELSE IF r.attempt < r.maxRetries - 1 THEN
            [r1 EXCEPT !.pc = "backoff", !.wakeAt = t + retryDelayMs(r.attempt)]
        ELSE throwAfterLoop([r1 EXCEPT !.attempt = @ + 1])

retryCatch(r, errorMessage, t) ==
    LET r1 == [r EXCEPT !.lastError = errorMessage, !.lastFailure = errorMessage]
    IN  IF ~isRetryableError(r1.lastError) THEN
            [r1 EXCEPT !.pc = "thrown", !.thrown = r1.lastError]
        ELSE IF r.attempt < r.maxRetries - 1 THEN
            [r1 EXCEPT !.pc = "backoff", !.wakeAt = t + retryDelayMs(r.attempt)]
        ELSE throwAfterLoop([r1 EXCEPT !.attempt = @ + 1])

\* One pass of the for loop at time t, from its test to the next await: the
\* call of sendMessageProluofireIm up to its own await, or the catch block.
RetryLoop(r, t) ==
    IF r.attempt < r.maxRetries THEN
        LET c == sendCheck(rateLimitState, r.target, t)
            r1 == [r EXCEPT !.sends = @ + 1]
        IN  /\ rateLimitState' = c.state
            /\ retry' = IF c.error = NoError THEN [r1 EXCEPT !.pc = "checked"]
                        ELSE retryCatch(r1, c.error, t)
    ELSE
        /\ retry' = throwAfterLoop(r)
        /\ UNCHANGED rateLimitState

RetryStart(target, maxRetries) ==
    /\ retry.pc = "idle"
    /\ retry.runs < MaxRuns
    /\ RetryLoop([retry EXCEPT !.target = target, !.maxRetries = maxRetries,
                               !.runs = @ + 1], now)
    /\ UNCHANGED << now, lastOutboundAt, calls, obs, nonSendVars >>

\* The attempt's send completes: sendMessageWithRetry returns.
RetryFinish ==
    /\ retry.pc = "checked"
    /\ rateLimitState' = updateRateLimit(rateLimitState, normalizeTarget(retry.target))
    /\ lastOutboundAt' = now
    /\ retry' = [retry EXCEPT !.pc = "returned"]
    /\ UNCHANGED << now, calls, obs, nonSendVars >>

\* The backoff timer fires, no earlier than wakeAt, and the loop goes on.
RetryWake ==
    /\ retry.pc = "backoff"
    /\ now' = IF now < retry.wakeAt THEN retry.wakeAt ELSE now
    /\ RetryLoop([retry EXCEPT !.attempt = @ + 1], now')
    /\ UNCHANGED << lastOutboundAt, calls, obs, nonSendVars >>

RetryReturn ==
    /\ retry.pc \in {"returned", "thrown"}
    /\ retry' = [idleRetry EXCEPT !.runs = retry.runs]
    /\ UNCHANGED << now, rateLimitState, lastOutboundAt, calls, obs, nonSendVars >>

(***************************************************************************)
(* The delivery pipeline's specifications                                  *)
(***************************************************************************)

EmptyMap == [x \in {} |-> 0]

InitSend ==
    /\ now = 0
    /\ rateLimitState = EmptyMap
    /\ lastOutboundAt = -1
    /\ calls = [c \in Callers |-> idleCall]
    /\ retry = idleRetry
    /\ obs = EmptyMap

\* One caller, whose sends follow one another.
NextSeq ==
    \/ \E t \in SendTargets : SendBegin("c1", t)
    \/ SendFinish("c1")
    \/ SendReturn("c1")
    \/ Tick

\* Callers whose sends overlap.
NextConc ==
    \/ \E c \in Callers, t \in SendTargets : SendBegin(c, t)
    \/ \E c \in Callers : SendFinish(c)
    \/ \E c \in Callers : SendReturn(c)
    \/ Tick

\* The windows sendMessageWithRetry may find: none, or one opened at time 0
\* in which all or all but one of the allowed messages have been sent.
PreloadedWindows ==
    { [count |-> c, resetAt |-> RATE_LIMIT_WINDOW_MS] :
        c \in {RATE_LIMIT_MAX_MESSAGES - 1, RATE_LIMIT_MAX_MESSAGES} }

PreloadedMaps ==
    UNION { [K -> PreloadedWindows] : K \in SUBSET {normalizeTarget(t) : t \in Targets} }

InitRetry ==
    /\ now = 0
    /\ rateLimitState \in PreloadedMaps
    /\ lastOutboundAt = -1
    /\ calls = [c \in Callers |-> idleCall]
    /\ retry = idleRetry
    /\ obs = EmptyMap

NextRetry ==
    \/ \E t \in Targets, m \in 0..MaxRetriesArg : RetryStart(t, m)
    \/ RetryFinish
    \/ RetryWake
    \/ RetryReturn
    \/ Tick

(***************************************************************************)
(* client.ts: the connection client                                        *)
(*                                                                         *)
(* client is the closure state of createProluofireImClient.  sock[s] is a  *)
(* WebSocket object together with the closure state of the                 *)
(* connectWebSocket call that created it: opened, settled, heartbeatTimer  *)
(* and the promise that call awaits.  A state S is the pair [c, k] of the  *)
(* client and the sockets; the handlers are functions on S.                *)
(***************************************************************************)

\* How many WebSocket objects exist at once.
MaxSockets == 2

\* How many pings sent on one socket are counted.
MaxPings == 2

\* How many times in a row the server refuses or drops a connection.
MaxAttempt == 3

SockIds == 1..MaxSockets

freeSock ==
    [state |-> "free", opened |-> FALSE, settled |-> FALSE, result |-> "none",
     heartbeat |-> FALSE, owner |-> "none", settles |-> 0, pings |-> 0]

newSock(owner) ==
    [state |-> "CONNECTING", opened |-> FALSE, settled |-> FALSE, result |-> "pending",
     heartbeat |-> FALSE, owner |-> owner, settles |-> 0, pings |-> 0]

\* ws && ws.readyState === st
wsIs(S, st) == S.c.ws # 0 /\ S.k[S.c.ws].state = st

finishResolveUnguarded(S, s) ==
    [S EXCEPT !.k[s].settled = TRUE, !.k[s].result = "resolved", !.k[s].settles = @ + 1]

finishResolve(S, s) ==
    IF S.k[s].settled THEN S
    ELSE [S EXCEPT !.k[s].settled = TRUE, !.k[s].result = "resolved", !.k[s].settles = @ + 1]

finishReject(S, s) ==
    IF S.k[s].settled THEN S
    ELSE [S EXCEPT !.k[s].settled = TRUE, !.k[s].result = "rejected", !.k[s].settles = @ + 1]

scheduleReconnectUnguarded(S) ==
    [S EXCEPT !.c.reconnectAttempt = @ + 1, !.c.reconnectTimer = "armed"]

scheduleReconnectNoTimer(S) ==
    IF S.c.closing THEN S
    ELSE [S EXCEPT !.c.reconnectAttempt = @ + 1]

\* reconnectTimer is "armed" while a reconnect timeout is pending.
scheduleReconnect(S) ==
    IF S.c.closing THEN S
    ELSE [S EXCEPT !.c.reconnectAttempt = @ + 1, !.c.reconnectTimer = "armed"]

\* if (ws?.readyState === WebSocket.OPEN) ws.send("ping"): ws is the
\* client's socket at the time of the call.  pings counts the pings sent on
\* a socket, up to MaxPings.
sendPing(S) ==
    IF wsIs(S, "OPEN") THEN [S EXCEPT !.k[S.c.ws].pings = min(@ + 1, MaxPings)] ELSE S

\* heartbeat is TRUE while the interval of the connectWebSocket call that
\* created socket s is set.
startHeartbeat(S, s) == sendPing([S EXCEPT !.k[s].heartbeat = TRUE])

\* ws.on("open")
onOpen(S, s) ==
    LET S1 == [S EXCEPT !.k[s].opened = TRUE, !.c.connected = TRUE, !.c.reconnectAttempt = 0]
    IN  finishResolve(startHeartbeat(S1, s), s)

\* ws.on("close")
onClose(S, s) ==
    LET S1 == [S EXCEPT !.k[s].heartbeat = FALSE, !.c.connected = FALSE]
        S2 == IF ~S1.c.closing THEN scheduleReconnect(S1) ELSE S1
    IN  IF ~S2.k[s].opened THEN finishReject(S2, s) ELSE finishResolve(S2, s)

\* ws.on("error")
onError(S, s) ==
    LET S1 == [S EXCEPT !.k[s].heartbeat = FALSE]
    IN  IF ~S1.c.connected THEN finishReject(S1, s) ELSE S1

\* What the awaiter of connectWebSocket's promise does once an event has
\* rejected it: connect() runs its catch block, the reconnect timer's callback
\* runs its .catch handler.  S0 is the state before the event, S1 after it.
promiseReaction(S0, S1, s) ==
    IF S0.k[s].result = "pending" /\ S1.k[s].result = "rejected" THEN
        IF S1.k[s].owner = "connect" THEN [S1 EXCEPT !.c.connected = FALSE]
        ELSE scheduleReconnect(S1)
    ELSE S1

\* The slots a new WebSocket object can take: a free one, or the one of the
\* closed socket that ws referred to, which is garbage once ws is reassigned.
slots(S) == {s \in SockIds : S.k[s].state = "free" \/ (S.c.ws = s /\ S.k[s].state = "CLOSED")}

leastFree(S) == CHOOSE s \in slots(S) : \A u \in slots(S) : s <= u

\* connectWebSocket() up to its await, called by owner: the state afterwards
\* and how the call ends at once ("resolved", "rejected") or "pending".
connectWebSocket(S, owner) ==
    IF S.c.closing THEN [S |-> S, outcome |-> "resolved"]
    ELSE IF wsIs(S, "OPEN") THEN [S |-> S, outcome |-> "resolved"]
    ELSE IF wsIs(S, "CONNECTING") THEN [S |-> S, outcome |-> "resolved"]
    ELSE IF S.c.auth # "token" THEN [S |-> S, outcome |-> "rejected"]
    ELSE LET s == leastFree(S)
         IN  [S |-> [S EXCEPT !.c.ws = s, !.k[s] = newSock(owner)], outcome |-> "pending"]

\* connectWebSocket() needs a WebSocket object unless it returns before new WebSocket().
canRun(S) ==
    \/ S.c.closing \/ wsIs(S, "OPEN") \/ wsIs(S, "CONNECTING") \/ S.c.auth # "token"
    \/ slots(S) # {}

Here == [c |-> client, k |-> sock]

currentOpen(S) == wsIs(S, "OPEN")

\* The reconnect obligations after a step to S1: lost since an established
\* connection dropped without disconnect(), until the client's socket is open
\* or disconnect() is called; due until connectWebSocket() is called again.
\* call says what connect() did in the step: "called", "threw" (it rejected
\* before it returned) or "none" (the step is not a connect() call).
\* rejected holds since the promise of a connect() call rejected, until
\* connect() is called again.
histAfter(S1, dropped, attempted, call) ==
    [lost |-> (hist.lost \/ dropped) /\ ~currentOpen(S1) /\ ~S1.c.closing,
     due |-> (hist.due \/ dropped) /\ ~attempted /\ ~S1.c.closing,
     rejected |-> \/ call = "threw"
                  \/ call = "none" /\ hist.rejected
                  \/ \E s \in SockIds : /\ sock[s].owner = "connect"
                                         /\ sock[s].result = "pending"
                                         /\ S1.k[s].result = "rejected"]

\* A closed socket that the client no longer refers to is garbage: its slot
\* is free one step after its last event.
collect(S1) ==
    [s \in SockIds |->
        IF sock[s].state = "CLOSED" /\ S1.k[s].state = "CLOSED" /\ S1.c.ws # s
        THEN freeSock ELSE S1.k[s]]

GotoCall(S1, dropped, attempted, call) ==
    \E S \in {S1} :
        /\ client' = S.c
        /\ sock' = collect(S)
        /\ hist' = histAfter(S, dropped, attempted, call)
        /\ UNCHANGED nonClientVars

Goto(S1, dropped, attempted) == GotoCall(S1, dropped, attempted, "none")

\* client.connect()
Connect ==
    /\ client.auth # "unset"
    /\ IF client.auth = "none" THEN
           GotoCall([Here EXCEPT !.c.connected = FALSE], FALSE, FALSE, "threw")
       ELSE
           \E S0 \in {[Here EXCEPT !.c.closing = FALSE]} :
               /\ canRun(S0)
               /\ \E r \in {connectWebSocket(S0, "connect")} :
                      GotoCall(IF r.outcome = "rejected"
                               THEN [r.S EXCEPT !.c.connected = FALSE] ELSE r.S,
                               FALSE, TRUE,
                               IF r.outcome = "rejected" THEN "threw" ELSE "called")

\* client.disconnect()
disconnect(S) ==
    LET S1 == [S EXCEPT !.c.closing = TRUE, !.c.reconnectTimer = "none"]
        S2 == IF wsIs(S1, "OPEN") THEN [S1 EXCEPT !.k[S1.c.ws].state = "CLOSING"] ELSE S1
    IN  [S2 EXCEPT !.c.ws = 0, !.c.connected = FALSE]

Disconnect ==
    /\ client.auth # "unset"
    /\ Goto(disconnect(Here), FALSE, FALSE)

\* The reconnect timer fires.
TimerFire ==
    /\ client.reconnectTimer = "armed"
    /\ \E S0 \in {[Here EXCEPT !.c.reconnectTimer = "none"]} :
           /\ canRun(S0)
           /\ \E r \in {connectWebSocket(S0, "timer")} :
                  Goto(IF r.outcome = "rejected" THEN scheduleReconnect(r.S) ELSE r.S,
                       FALSE, TRUE)

\* The handshake of socket s succeeds.
SockOpen(s) ==
    /\ sock[s].state = "CONNECTING"
    /\ \E S0 \in {Here} : \E S1 \in {onOpen([S0 EXCEPT !.k[s].state = "OPEN"], s)} :
           Goto(promiseReaction(S0, S1, s), FALSE, FALSE)

\* The handshake of socket s fails: the library emits "error" and then
\* "close" in one turn of the event loop.
SockFail(s) ==
    /\ sock[s].state = "CONNECTING"
    /\ client.reconnectAttempt < MaxAttempt
    /\ \E S0 \in {Here} : \E S1 \in {onError([S0 EXCEPT !.k[s].state = "CLOSING"], s)} :
       \E S2 \in {onClose([S1 EXCEPT !.k[s].state = "CLOSED"], s)} :
           Goto(promiseReaction(S0, S2, s), FALSE, FALSE)

\* The open socket s fails: the library emits "error" and starts closing it.
SockError(s) ==
    /\ sock[s].state = "OPEN"
    /\ \E S0 \in {Here} : \E S1 \in {onError([S0 EXCEPT !.k[s].state = "CLOSING"], s)} :
           Goto(promiseReaction(S0, S1, s), sock[s].opened /\ ~client.closing, FALSE)

\* Socket s is closed: the library emits "close".
SockClose(s) ==
    /\ sock[s].state \in {"OPEN", "CLOSING"}
    /\ \E S0 \in {Here} : \E S1 \in {onClose([S0 EXCEPT !.k[s].state = "CLOSED"], s)} :
           Goto(promiseReaction(S0, S1, s), sock[s].opened /\ ~client.closing, FALSE)

\* The heartbeat interval of the call that created socket s fires.
HeartbeatTick(s) ==
    /\ sock[s].heartbeat
    /\ Goto(sendPing(Here), FALSE, FALSE)

\* createProluofireImClient(params): the credentials are an API key
\* ("token"), a user name and password without an API key ("basic"), or
\* neither ("none").
CreateClient(a) ==
    /\ client.auth = "unset"
    /\ Goto([Here EXCEPT !.c.auth = a], FALSE, FALSE)

InitClient ==
    /\ client = [connected |-> FALSE, ws |-> 0, reconnectTimer |-> "none",
                 reconnectAttempt |-> 0, closing |-> FALSE, auth |-> "unset"]
    /\ sock = [s \in SockIds |-> freeSock]
    /\ hist = [lost |-> FALSE, due |-> FALSE, rejected |-> FALSE]

NextClient ==
    \/ \E a \in {"token", "basic", "none"} : CreateClient(a)
    \/ Connect
    \/ Disconnect
    \/ TimerFire
    \/ \E s \in SockIds : SockOpen(s)
    \/ \E s \in SockIds : SockFail(s)
    \/ \E s \in SockIds : SockError(s)
    \/ \E s \in SockIds : SockClose(s)
    \/ \E s \in SockIds : HeartbeatTick(s)


(***************************************************************************)
(* Specifications                                                          *)
(***************************************************************************)

(***************************************************************************)
(* client.ts: client.sendMessage                                           *)
(***************************************************************************)

\* The longest attachments list a caller passes.
MaxAttachments == 1

RoomBob == <<"@","b","o","b">>

ApiTargets == {Room42, Group42, RoomBob}

stripOptionalPrefix(s, prefix) ==
    IF startsWith(toLowerCase(s), prefix) THEN slice(s, Len(prefix)) ELSE s

\* value.trim().replace(/^(proluofire-im:)?(group:|user:)?/i, "").replace(/^[@#]/, "").trim()
normalizeRoomId(value) ==
    LET trimmed == trim(value)
        noChannel == stripOptionalPrefix(trimmed, ChannelPrefix)
        noGroup == stripOptionalPrefix(noChannel, GroupPrefix)
        normalized == IF noGroup # noChannel THEN noGroup
                      ELSE stripOptionalPrefix(noChannel, UserPrefix)
    IN  IF trimmed = <<>> THEN <<>> ELSE trim(stripSigil(normalized))

\* resolveRoomIdFromTarget throws unless the room id is numeric.
roomIdOk(target) == isNumericId(normalizeRoomId(target))

sendMessageNoAttachmentCheck(connected, target, attachments) ==
    IF ~connected THEN "not-connected"
    ELSE IF ~roomIdOk(target) THEN "bad-target"
    ELSE "request"

\* client.sendMessage up to its first await: the error it throws, or
\* "request" when it calls makeRequest.
sendMessage(connected, target, attachments) ==
    IF ~connected THEN "not-connected"
    ELSE IF attachments > 0 THEN "attachments"
    ELSE IF ~roomIdOk(target) THEN "bad-target"
    ELSE "request"

idleHttp ==
    [pc |-> "idle", outcome |-> "none", issued |-> FALSE,
     connected |-> FALSE, attachments |-> FALSE]

ApiSend(target, attachments) ==
    /\ client.auth # "unset"
    /\ http.pc = "idle"
    /\ \E r \in {sendMessage(client.connected, target, attachments)} :
           http' = [pc |-> IF r = "request" THEN "waiting" ELSE "done",
                    outcome |-> IF r = "request" THEN "pending" ELSE r,
                    issued |-> r = "request",
                    connected |-> client.connected,
                    attachments |-> attachments > 0]
    /\ UNCHANGED nonApiVars

\* The server answers the request: response.ok or an HTTP error status.
ApiRespond(ok) ==
    /\ http.pc = "waiting"
    /\ http' = [http EXCEPT !.pc = "done", !.outcome = IF ok THEN "sent" ELSE "http-error"]
    /\ UNCHANGED nonApiVars

ApiReturn ==
    /\ http.pc = "done"
    /\ http' = idleHttp
    /\ UNCHANGED nonApiVars

InitApi == http = idleHttp

NextApi ==
    \/ NextClient
    \/ \E target \in ApiTargets, attachments \in 0..MaxAttachments : ApiSend(target, attachments)
    \/ \E ok \in BOOLEAN : ApiRespond(ok)
    \/ ApiReturn

(***************************************************************************)
(* actions.ts, monitor.ts, webhook.ts: the life of an account              *)
(*                                                                         *)
(* gw[a].pc follows gateway.startAccount: "imports" (the dynamic imports), *)
(* "connecting" (await client.connect()), "monitoring" (inside             *)
(* monitorProluofireImProvider, awaiting its promise), "stopping" (the     *)
(* promise is resolved, await client.disconnect()), "returned".  running   *)
(* is runtimeStates.get(a).running.  The connection itself is the subject  *)
(* of the client model; here connect() ends in success or in failure.      *)
(***************************************************************************)

DefaultAccount == <<"d","e","f","a","u","l","t">>
Alpha == <<"a","l","p","h","a">>
AlphaCaps == <<"A","l","p","h","a">>

\* The keys of channels["proluofire-im"].accounts, and the default account.
Accounts == {DefaultAccount, Alpha, AlphaCaps}

\* gw is indexed by the calls of startAccount that are in progress: one per
\* account, and AlphaAgain, a second call for the account alpha made while
\* the first has not returned.  accountOf is ctx.account.accountId.
AlphaAgain == <<"a","l","p","h","a","(","2",")">>

accountOf(run) == IF run = AlphaAgain THEN Alpha ELSE run

DEFAULT_WEBHOOK_PATH == "/webhook/proluofire-im"

SharedPath == "/hook"

\* resolveWebhookPath: the configured path, or the default path of the account.
resolveWebhookPath(a, configured) ==
    IF configured # "" THEN configured
    ELSE IF a = DefaultAccount THEN DEFAULT_WEBHOOK_PATH
    ELSE IF a = Alpha THEN "/webhook/proluofire-im/alpha"
    ELSE "/webhook/proluofire-im/Alpha"

Paths == {SharedPath} \cup {resolveWebhookPath(a, "") : a \in Accounts}

has(list, a) == \E i \in 1..Len(list) : list[i] = a

targetsAt(m, key) == IF key \in DOMAIN m THEN m[key] ELSE <<>>

\* registerWebhookTarget: replace the entry of the same account, or append.
registerWebhookTarget(m, key, a) ==
    LET existing == targetsAt(m, key)
        next == IF has(existing, a) THEN existing ELSE Append(existing, a)
    IN  [k \in (DOMAIN m) \cup {key} |-> IF k = key THEN next ELSE m[k]]

unregisterTargetNoop(m, key, a) == m

\* The function that registerWebhookTarget returns.
unregisterTarget(m, key, a) ==
    LET filtered == SelectSeq(targetsAt(m, key), LAMBDA entry : entry # a)
    IN  IF filtered = <<>> THEN [k \in (DOMAIN m) \ {key} |-> m[k]]
        ELSE [k \in (DOMAIN m) \cup {key} |-> IF k = key THEN filtered ELSE m[k]]

\* lastError is runtimeStates.get(a).lastError, "null" or "error"; conn is
\* the last status the monitor's onConnectionStatus handler was called with.
idleAccount ==
    [pc |-> "idle", aborted |-> FALSE, listening |-> FALSE, running |-> FALSE, path |-> "",
     lastError |-> "null", conn |-> "none"]

\* The gateway calls startAccount with a fresh abort signal.
StartAccount(a, configured) ==
    /\ gw[a].pc = "idle"
    /\ gw' = [gw EXCEPT ![a] = [idleAccount EXCEPT !.pc = "imports",
                                    !.path = resolveWebhookPath(accountOf(a), configured),
                                    !.lastError = gw[a].lastError]]
    /\ UNCHANGED << webhookTargets, clientInstances, req, nonHookVars >>

\* The imports and createProluofireImClient are done; connect() is called.
ImportsDone(a) ==
    /\ gw[a].pc = "imports"
    /\ gw' = [gw EXCEPT ![a].pc = "connecting"]
    /\ UNCHANGED << webhookTargets, clientInstances, req, nonHookVars >>

\* connect() resolves: markAccountStarted, then monitorProluofireImProvider
\* up to its await.  A listener added to a signal that is already aborted is
\* never called.
ConnectResolved(a) ==
    /\ gw[a].pc = "connecting"
    /\ gw' = [gw EXCEPT ![a].pc = "monitoring", ![a].running = TRUE,
                          ![a].lastError = "null",
                          ![a].listening = ~gw[a].aborted]
    /\ clientInstances' = clientInstances \cup {accountOf(a)}
    /\ webhookTargets' = registerWebhookTarget(webhookTargets, gw[a].path, accountOf(a))
    /\ UNCHANGED << req, nonHookVars >>

\* connect() rejects: the catch block marks the account stopped and rethrows.
ConnectRejected(a) ==
    /\ gw[a].pc = "connecting"
    /\ gw' = [gw EXCEPT ![a].pc = "returned", ![a].running = FALSE, ![a].lastError = "error"]
    /\ UNCHANGED << webhookTargets, clientInstances, req, nonHookVars >>

\* The abort signal of the account is raised; the monitor's listener, if it
\* is attached, unregisters and resolves the monitor's promise.
Abort(a) ==
    /\ gw[a].pc \in {"imports", "connecting", "monitoring"}
    /\ ~gw[a].aborted
    /\ IF gw[a].listening THEN
           /\ gw' = [gw EXCEPT ![a].aborted = TRUE, ![a].pc = "stopping"]
           /\ webhookTargets' = unregisterTarget(webhookTargets, gw[a].path, accountOf(a))
           /\ clientInstances' = clientInstances \ {accountOf(a)}
       ELSE
           /\ gw' = [gw EXCEPT ![a].aborted = TRUE]
           /\ UNCHANGED << webhookTargets, clientInstances >>
    /\ UNCHANGED << req, nonHookVars >>

\* client.disconnect() is done; markAccountStopped; startAccount returns.
Disconnected(a) ==
    /\ gw[a].pc = "stopping"
    /\ gw' = [gw EXCEPT ![a].pc = "returned", ![a].running = FALSE, ![a].listening = FALSE,
                          ![a].lastError = "null", ![a].conn = "disconnected"]
    /\ UNCHANGED << webhookTargets, clientInstances, req, nonHookVars >>

\* The gateway forgets the finished run; the account can be started again.
Forget(a) ==
    /\ gw[a].pc = "returned"
    /\ gw' = [gw EXCEPT ![a] = [idleAccount EXCEPT !.lastError = gw[a].lastError]]
    /\ UNCHANGED << webhookTargets, clientInstances, req, nonHookVars >>

idleReq ==
    [pc |-> "idle", status |-> "", text |-> "", targets |-> <<>>, query |-> <<>>,
     header |-> <<>>, payload |-> <<>>, kind |-> "", total |-> 0, chunks |-> 0,
     queue |-> <<>>, processed |-> <<>>, delivered |-> <<>>, failed |-> <<>>]

InitHook ==
    /\ gw = [a \in Accounts |-> idleAccount]
    /\ webhookTargets = [k \in {} |-> <<>>]
    /\ clientInstances = {}
    /\ req = idleReq

\* The client reports a connection status while the monitor runs: the
\* handler that monitorProluofireImProvider registered logs it.
ConnectionStatus(a, connected) ==
    /\ gw[a].pc = "monitoring"
    /\ gw' = [gw EXCEPT ![a].conn = IF connected THEN "connected" ELSE "disconnected"]
    /\ UNCHANGED << webhookTargets, clientInstances, req, nonHookVars >>

NextStatus ==
    \/ \E a \in Accounts, configured \in {"", SharedPath} : StartAccount(a, configured)
    \/ \E a \in Accounts : ImportsDone(a)
    \/ \E a \in Accounts : ConnectResolved(a)
    \/ \E a \in Accounts : ConnectRejected(a)
    \/ \E a \in Accounts, connected \in BOOLEAN : ConnectionStatus(a, connected)
    \/ \E a \in Accounts : Abort(a)
    \/ \E a \in Accounts : Disconnected(a)
    \/ \E a \in Accounts : Forget(a)

\* The calls of startAccount when the gateway restarts the account alpha.
RestartRuns == {Alpha, AlphaAgain}

InitRestart ==
    /\ gw = [r \in RestartRuns |-> idleAccount]
    /\ webhookTargets = [k \in {} |-> <<>>]
    /\ clientInstances = {}
    /\ req = idleReq

NextRestart ==
    \/ \E r \in RestartRuns, configured \in {"", SharedPath} : StartAccount(r, configured)
    \/ \E r \in RestartRuns : ImportsDone(r)
    \/ \E r \in RestartRuns : ConnectResolved(r)
    \/ \E r \in RestartRuns : ConnectRejected(r)
    \/ \E r \in RestartRuns : Abort(r)
    \/ \E r \in RestartRuns : Disconnected(r)
    \/ \E r \in RestartRuns : Forget(r)

NextGateway ==
    \/ \E a \in Accounts, configured \in {"", SharedPath} : StartAccount(a, configured)
    \/ \E a \in Accounts : ImportsDone(a)
    \/ \E a \in Accounts : ConnectResolved(a)
    \/ \E a \in Accounts : ConnectRejected(a)
    \/ \E a \in Accounts : Abort(a)
    \/ \E a \in Accounts : Disconnected(a)
    \/ \E a \in Accounts : Forget(a)

(***************************************************************************)
(* monitor.ts, webhook.ts: the webhook receiver                            *)
(*                                                                         *)
(* A request carries its path, its method, the account id of its query, of *)
(* its headers and of its payload (<<>> when absent), and the kind of its  *)
(* body: "blank", "garbage" (not JSON), "message" (a message event) or     *)
(* "event" (JSON of another event type).  The body arrives in chunks.      *)
(***************************************************************************)

WEBHOOK_MAX_BYTES == 1048576

\* How many data chunks a request body arrives in.
MaxChunks == 2

ChunkSizes == {1, WEBHOOK_MAX_BYTES}

Ghost == <<"g","h","o","s","t">>
AlphaPadded == <<" ","a","l","p","h","a">>
Blank == <<" ">>

QueryHints == {<<>>, Blank, AlphaPadded, Ghost}
HeaderHints == {<<>>, AlphaPadded, Ghost}
PayloadHints == {<<>>, AlphaPadded, Ghost}

\* readAccountHint: the first of query, header and payload that is not empty, trimmed.
readAccountHint(query, header, payload) ==
    IF query # <<>> THEN trim(query)
    ELSE IF header # <<>> THEN trim(header)
    ELSE IF payload # <<>> THEN trim(payload)
    ELSE <<>>

matchingTargetsFirst(targets, accountHint) ==
    IF accountHint # <<>> THEN
        SelectSeq(targets, LAMBDA t : toLowerCase(t) = toLowerCase(accountHint))
    ELSE IF Len(targets) > 1 THEN << targets[1] >>
    ELSE targets

\* The registrations that handleProluofireImWebhookRequest processes.
matchingTargets(targets, accountHint) ==
    IF accountHint # <<>> THEN
        SelectSeq(targets, LAMBDA t : toLowerCase(t) = toLowerCase(accountHint))
    ELSE IF Len(targets) > 1 THEN
        IF has(targets, DefaultAccount) THEN << DefaultAccount >> ELSE << targets[1] >>
    ELSE targets

\* res.statusCode and res.end(text): the request is answered.
reply(r, status, text) == [r EXCEPT !.pc = "done", !.status = status, !.text = text]

\* The request arrives: the path is looked up and the method is checked.
Receive(path, method, query, header, payload, kind) ==
    /\ req.pc = "idle"
    /\ \E targets \in {targetsAt(webhookTargets, path)} :
         req' = IF targets = <<>> THEN reply(req, "unhandled", "")
                ELSE IF method # "POST" THEN reply(req, "405", "Method Not Allowed")
                ELSE [req EXCEPT !.pc = "reading", !.targets = targets, !.query = query,
                                 !.header = header, !.payload = payload, !.kind = kind]
    /\ UNCHANGED << gw, webhookTargets, clientInstances, nonHookVars >>

DataNoCap(size) ==
    /\ req.pc = "reading"
    /\ req.chunks < MaxChunks
    /\ req' = [req EXCEPT !.total = @ + size, !.chunks = @ + 1]
    /\ UNCHANGED << gw, webhookTargets, clientInstances, nonHookVars >>

\* readJsonBody, req.on("data"): past the cap the read is over and the
\* handler answers 413.
Data(size) ==
    /\ req.pc = "reading"
    /\ req.chunks < MaxChunks
    /\ \E r \in {[req EXCEPT !.total = @ + size, !.chunks = @ + 1]} :
         req' = IF r.total > WEBHOOK_MAX_BYTES THEN reply(r, "413", "payload too large")
                ELSE r
    /\ UNCHANGED << gw, webhookTargets, clientInstances, nonHookVars >>

\* readJsonBody, req.on("error"): the handler answers 400.
ReadError ==
    /\ req.pc = "reading"
    /\ req' = reply(req, "400", "read error")
    /\ UNCHANGED << gw, webhookTargets, clientInstances, nonHookVars >>

\* readJsonBody, req.on("end"), and the handler up to its loop.
End ==
    /\ req.pc = "reading"
    /\ req' =
         IF req.chunks = 0 \/ req.kind = "blank" THEN reply(req, "400", "empty payload")
         ELSE IF req.kind = "garbage" THEN reply(req, "400", "invalid json")
         ELSE LET accountHint == readAccountHint(req.query, req.header, req.payload)
                  matching == matchingTargets(req.targets, accountHint)
              IN  IF matching = <<>> THEN reply(req, "404", "unknown account")
                  ELSE [req EXCEPT !.pc = "processing", !.queue = matching]
    /\ UNCHANGED << gw, webhookTargets, clientInstances, nonHookVars >>

ProcessStopOnFailure(success) ==
    /\ req.pc = "processing"
    /\ req.queue # <<>>
    /\ LET a == Head(req.queue)
       IN  req' = [req EXCEPT !.queue = IF success THEN Tail(@) ELSE <<>>,
                              !.processed = Append(@, a),
                              !.delivered = IF success /\ req.kind = "message" /\ a \in clientInstances
                                            THEN Append(@, a) ELSE @,
                              !.failed = IF success THEN @ ELSE Append(@, a)]
    /\ UNCHANGED << gw, webhookTargets, clientInstances, nonHookVars >>

\* One turn of the loop: handleWebhookRequest for the next registration.  It
\* hands a message event to the account's client entry, and it returns
\* success: false when anything inside it throws.
Process(success) ==
    /\ req.pc = "processing"
    /\ req.queue # <<>>
    /\ LET a == Head(req.queue)
       IN  req' = [req EXCEPT !.queue = Tail(@),
                              !.processed = Append(@, a),
                              !.delivered = IF success /\ req.kind = "message" /\ a \in clientInstances
                                            THEN Append(@, a) ELSE @,
                              !.failed = IF success THEN @ ELSE Append(@, a)]
    /\ UNCHANGED << gw, webhookTargets, clientInstances, nonHookVars >>

\* After the loop: 200 and the acknowledgement.
Respond ==
    /\ req.pc = "processing"
    /\ req.queue = <<>>
    /\ req' = reply(req, "200", "{success:true}")
    /\ UNCHANGED << gw, webhookTargets, clientInstances, nonHookVars >>

Finish ==
    /\ req.pc = "done"
    /\ req' = idleReq
    /\ UNCHANGED << gw, webhookTargets, clientInstances, nonHookVars >>

\* The accounts whose monitor runs, in the order they registered, and
\* whether each uses the shared path.
RECURSIVE registerAll(_, _, _)
registerAll(m, order, shared) ==
    IF order = <<>> THEN m
    ELSE registerAll(registerWebhookTarget(m, resolveWebhookPath(Head(order),
                        IF Head(order) \in shared THEN SharedPath ELSE ""), Head(order)),
                     Tail(order), shared)

Orders ==
    {order \in UNION {[1..n -> Accounts] : n \in 0..Cardinality(Accounts)} :
        \A i, j \in 1..Len(order) : i # j => order[i] # order[j]}

NextWebhook ==
    \/ \E path \in Paths, method \in {"POST", "GET"}, query \in QueryHints,
          header \in HeaderHints, payload \in PayloadHints,
          kind \in {"blank", "garbage", "message", "event"} :
            Receive(path, method, query, header, payload, kind)
    \/ \E size \in ChunkSizes : Data(size)
    \/ ReadError
    \/ End
    \/ \E success \in BOOLEAN : Process(success)
    \/ Respond
    \/ Finish

\* An await of startAccount whose promise settles is resumed.
FairGateway ==
    \A a \in Accounts :
        /\ WF_vars(ImportsDone(a))
        /\ WF_vars(ConnectResolved(a) \/ ConnectRejected(a))
        /\ WF_vars(Disconnected(a))

(***************************************************************************)
(* monitor.ts: the handling of an inbound message                          *)
(*                                                                         *)
(* The source declares handleIncomingMessage twice after the skeleton: at  *)
(* line 853, built from helper functions and with the self-message test,   *)
(* and at line 1564, written inline and without it.  im.version says which *)
(* declaration handles the message.  The command gate and the mention gate *)
(* are services of the plugin SDK: their verdict is an input.              *)
(***************************************************************************)

Bot == <<"b","o","t">>
BotSigil == <<"@","B","o","t">>
Ann == <<"a","n","n">>
Star == <<"*">>
Seven == <<"7">>
GroupSeven == <<"#","7">>
GroupEight == <<"#","8">>

Senders == {Bot, BotSigil, Ann}
Recipients == {<<>>, Seven, GroupEight}
SelfUids == {<<>>, Ann}
Versions == {"helpers", "inline"}

\* How many pairing replies to one sender are counted.
MaxReplies == 2

\* An entry of account.config.groups; requireMention is "unset" when the
\* entry has no boolean for it.
groupEntry(key, users, requireMention) ==
    [key |-> key, users |-> users, requireMention |-> requireMention]

\* account.config.groups, as the list of its keys with each key's entry.
GroupTables ==
    { <<>>,
      << groupEntry(GroupSeven, <<>>, "unset") >>,
      << groupEntry(Star, <<>>, "unset") >>,
      << groupEntry(GroupEight, << Ann >>, "unset") >>,
      << groupEntry(GroupSeven, << Ann >>, "unset"), groupEntry(Star, <<>>, "unset") >>,
      << groupEntry(Star, << Ann >>, "unset") >>,
      << groupEntry(GroupEight, << Star >>, "unset") >> }

MentionTables ==
    { << groupEntry(Star, <<>>, "unset") >>,
      << groupEntry(Star, <<>>, "false") >>,
      << groupEntry(GroupEight, <<>>, "true") >>,
      << groupEntry(GroupEight, <<>>, "false"), groupEntry(Star, <<>>, "true") >>,
      << groupEntry(GroupEight, <<>>, "unset"), groupEntry(Star, <<>>, "false") >> }

\* The configuration read by the handler: the account's fields, whether
\* commands.useAccessGroups is not false, whether text commands are handled
\* on this surface, and whether the routed agent has mention patterns.
BaseConfig ==
    [botUid |-> <<>>, groupPolicy |-> "unset", groups |-> <<>>, dmPolicy |-> "pairing",
     allowFrom |-> <<>>, groupAllowFrom |-> <<>>, store |-> <<>>,
     useAccessGroups |-> TRUE, textCommands |-> TRUE, mentionPatterns |-> TRUE]

\* Configurations that vary the bot identity and the group policy.
AdmissionConfigs ==
    {[BaseConfig EXCEPT !.botUid = b, !.groupPolicy = gp, !.groups = g] :
        b \in {<<>>, Bot}, gp \in {"unset", "open", "disabled", "allowlist"}, g \in GroupTables}

\* Configurations that vary the lists a group sender is tested against.
GroupSenderConfigs ==
    {[BaseConfig EXCEPT !.groupPolicy = gp, !.groups = g, !.allowFrom = af,
                        !.groupAllowFrom = gaf, !.store = st] :
        gp \in {"open", "allowlist"}, g \in GroupTables, af \in {<<>>, << Ann >>},
        gaf \in {<<>>, << Ann >>}, st \in {<<>>, << Ann >>}}

\* Configurations that vary the direct-message policy and its lists.
DmConfigs ==
    {[BaseConfig EXCEPT !.dmPolicy = dp, !.allowFrom = af, !.store = st] :
        dp \in {"pairing", "allowlist", "open"}, af \in {<<>>, << Ann >>, << Star >>},
        st \in {<<>>, << Ann >>}}

\* Configurations that vary the command gate and the mention gate.
GateConfigs ==
    {[BaseConfig EXCEPT !.groupPolicy = "open", !.groups = g, !.dmPolicy = dp, !.allowFrom = af,
                        !.useAccessGroups = ag, !.textCommands = tc, !.mentionPatterns = mp] :
        g \in MentionTables, dp \in {"open", "allowlist"}, af \in {<<>>, << Ann >>},
        ag \in BOOLEAN, tc \in BOOLEAN, mp \in BOOLEAN}

Configs == AdmissionConfigs \cup GroupSenderConfigs \cup DmConfigs \cup GateConfigs

SenderIds == {normalizeProluofireImUserId(x) : x \in Senders}

normalizeProluofireImAllowEntry(value) ==
    LET trimmed == stripProluofireImPrefix(value)
        lower == toLowerCase(trimmed)
    IN  IF trimmed = <<>> THEN <<>>
        ELSE IF trimmed = Star THEN Star
        ELSE IF startsWith(lower, UserPrefix) THEN trim(slice(lower, Len(UserPrefix)))
        ELSE IF startsWith(lower, GroupPrefix) THEN trim(slice(lower, Len(GroupPrefix)))
        ELSE toLowerCase(trim(stripSigil(trimmed)))

normalizeAllowlist(list) ==
    SelectSeq([i \in 1..Len(list) |-> normalizeProluofireImAllowEntry(list[i])],
              LAMBDA e : e # <<>>)

isAllowedSenderNonEmpty(allowList, senderId) == Len(allowList) > 0

isAllowedSender(allowList, senderId) == has(allowList, Star) \/ has(allowList, senderId)

identifyMessageParticipants(m) ==
    LET fromTarget == normalizeTarget(m.from)
        toTarget == normalizeTarget(m.to)
        isGroup == toTarget # <<>> /\ toTarget[1] = "#"
    IN  [fromTarget |-> fromTarget,
         toTarget |-> toTarget,
         senderId |-> normalizeProluofireImUserId(IF fromTarget # <<>> THEN fromTarget ELSE m.from),
         groupId |-> IF isGroup THEN normalizeProluofireImGroupId(toTarget) ELSE <<>>,
         isGroup |-> isGroup]

isSelfMessage(senderId, configBotUid, messageSelfUid) ==
    LET botUid == IF configBotUid # <<>> THEN normalizeProluofireImUserId(configBotUid) ELSE <<>>
        selfUid == IF messageSelfUid # <<>> THEN normalizeProluofireImUserId(messageSelfUid) ELSE <<>>
    IN  (botUid # <<>> /\ senderId = botUid) \/ (selfUid # <<>> /\ senderId = selfUid)

resolveMessagePolicies(c) ==
    LET configAllowFrom == normalizeAllowlist(c.allowFrom)
        configGroupAllowFrom == normalizeAllowlist(c.groupAllowFrom)
        storeAllowList == normalizeAllowlist(c.store)
        baseGroupAllowFrom ==
            IF Len(configGroupAllowFrom) > 0 THEN configGroupAllowFrom ELSE configAllowFrom
    IN  [dmPolicy |-> c.dmPolicy,
         groupPolicy |-> IF c.groupPolicy = "unset" THEN "allowlist" ELSE c.groupPolicy,
         effectiveAllowFrom |-> configAllowFrom \o storeAllowList,
         effectiveGroupAllowFrom |-> baseGroupAllowFrom \o storeAllowList]

\* The first of the indexes hits, 0 when there is none.
firstKey(hits) ==
    IF hits = {} THEN 0 ELSE CHOOSE i \in hits : \A j \in hits : i <= j

resolveGroupMatchNoWildcard(groups, groupId, groupPolicy) ==
    LET normalized == normalizeProluofireImGroupId(groupId)
        entry == IF normalized = <<>> THEN 0
                 ELSE firstKey({i \in 1..Len(groups) :
                                   normalizeProluofireImGroupId(groups[i].key) = normalized})
        wildcard == firstKey({i \in 1..Len(groups) : groups[i].key = Star})
    IN  [entry |-> entry,
         wildcard |-> wildcard,
         allowed |-> IF groupPolicy = "open" THEN TRUE
                     ELSE IF groupPolicy = "disabled" THEN FALSE
                     ELSE IF Len(groups) > 0 THEN entry # 0
                     ELSE FALSE,
         allowlistConfigured |-> Len(groups) > 0]

\* entry and wildcard are indexes into groups, 0 for undefined.
resolveGroupMatch(groups, groupId, groupPolicy) ==
    LET normalized == normalizeProluofireImGroupId(groupId)
        entry == IF normalized = <<>> THEN 0
                 ELSE firstKey({i \in 1..Len(groups) :
                                   normalizeProluofireImGroupId(groups[i].key) = normalized})
        wildcard == firstKey({i \in 1..Len(groups) : groups[i].key = Star})
    IN  [entry |-> entry,
         wildcard |-> wildcard,
         allowed |-> IF groupPolicy = "open" THEN TRUE
                     ELSE IF groupPolicy = "disabled" THEN FALSE
                     ELSE IF Len(groups) > 0 THEN entry # 0 \/ wildcard # 0
                     ELSE FALSE,
         allowlistConfigured |-> Len(groups) > 0]

\* stage is how far group admission went: "" for a direct message,
\* "disabled" and "not-allowlisted" for the two drops of the group itself,
\* "sender" for the drop of the sender, "admitted" otherwise.  entry and
\* wildcard are those of the group match.
validateGroupAccess(identity, policies, c) ==
    IF ~identity.isGroup
    THEN [allowed |-> TRUE, stage |-> "", groupUsers |-> <<>>, entry |-> 0, wildcard |-> 0]
    ELSE LET groupMatch == resolveGroupMatch(c.groups, identity.toTarget, policies.groupPolicy)
             groupUsers == IF groupMatch.entry # 0
                           THEN normalizeAllowlist(c.groups[groupMatch.entry].users) ELSE <<>>
             allowFrom == IF Len(groupUsers) > 0 THEN groupUsers
                          ELSE policies.effectiveGroupAllowFrom
             senderAllowed == Len(allowFrom) = 0 \/ isAllowedSender(allowFrom, identity.senderId)
             result(allowed, stage, users) ==
                 [allowed |-> allowed, stage |-> stage, groupUsers |-> users,
                  entry |-> groupMatch.entry, wildcard |-> groupMatch.wildcard]
         IN  IF policies.groupPolicy = "disabled" THEN result(FALSE, "disabled", <<>>)
             ELSE IF policies.groupPolicy # "open" /\ ~groupMatch.allowed
             THEN result(FALSE, "not-allowlisted", <<>>)
             ELSE IF ~senderAllowed THEN result(FALSE, "sender", groupUsers)
             ELSE result(TRUE, "admitted", groupUsers)

resolveRequireMentionDefaultFalse(groups, groupValidation) ==
    IF groupValidation.entry # 0 /\ groups[groupValidation.entry].requireMention # "unset"
    THEN groups[groupValidation.entry].requireMention = "true"
    ELSE IF groupValidation.wildcard # 0 /\ groups[groupValidation.wildcard].requireMention # "unset"
    THEN groups[groupValidation.wildcard].requireMention = "true"
    ELSE FALSE

\* The entry's requireMention when it is a boolean, else the wildcard's,
\* else true.
resolveRequireMention(groups, groupValidation) ==
    IF groupValidation.entry # 0 /\ groups[groupValidation.entry].requireMention # "unset"
    THEN groups[groupValidation.entry].requireMention = "true"
    ELSE IF groupValidation.wildcard # 0 /\ groups[groupValidation.wildcard].requireMention # "unset"
    THEN groups[groupValidation.wildcard].requireMention = "true"
    ELSE TRUE

\* The command gate of the plugin SDK: with access groups enforced a
\* command is authorized when the allow-list is configured and holds the
\* sender; a control command that is not authorized is blocked when text
\* commands are handled.
resolveControlCommandGate(useAccessGroups, configured, allowed, allowTextCommands, hasControlCommand) ==
    LET commandAuthorized == IF useAccessGroups THEN configured /\ allowed ELSE TRUE
    IN  [commandAuthorized |-> commandAuthorized,
         shouldBlock |-> allowTextCommands /\ hasControlCommand /\ ~commandAuthorized]

\* The mention gate of the plugin SDK: a group message is skipped when a
\* mention is required, mentions can be detected and there is none, unless
\* it is an authorized control command and text commands are handled.
resolveMentionGatingWithBypass(isGroup, requireMention, canDetectMention, wasMentioned, allowTextCommands, hasControlCommand, commandAuthorized) ==
    LET shouldBypassMention == /\ isGroup
                               /\ requireMention
                               /\ ~wasMentioned
                               /\ allowTextCommands
                               /\ commandAuthorized
                               /\ hasControlCommand
    IN  [shouldSkip |-> requireMention /\ canDetectMention
                        /\ ~(wasMentioned \/ shouldBypassMention),
         shouldBypassMention |-> shouldBypassMention]

\* roomId is message.roomId, <<>> when the message has none.
idleIm ==
    [pc |-> "idle", version |-> "", from |-> <<>>, to |-> <<>>, selfUid |-> <<>>, roomId |-> <<>>,
     command |-> FALSE, mentioned |-> FALSE, authorized |-> FALSE,
     drop |-> "", group |-> "", effects |-> {}]

dropped(r, reason) == [r EXCEPT !.pc = "done", !.drop = reason]

\* handleIncomingMessage up to its first await: the empty-message test, the
\* self-message test of the declaration that has one, the status update.
Arrive(version, from, to, selfUid, blank) ==
    /\ im.pc = "idle"
    /\ LET r == [im EXCEPT !.version = version, !.from = from, !.to = to, !.selfUid = selfUid]
           identity == identifyMessageParticipants(r)
       IN  im' = IF blank THEN dropped(r, "empty")
                 ELSE IF version = "helpers" /\ isSelfMessage(identity.senderId, cfg.botUid, selfUid)
                 THEN dropped(r, "self")
                 ELSE [r EXCEPT !.pc = "policies", !.effects = {"inbound"}]
    /\ UNCHANGED << cfg, pairing, replies, errorLog, nonInboundVars >>

\* The pairing store of the plugin SDK: a request is created for an id that
\* has none outstanding, and an id that has one keeps it.
upsertPairingRequest(requests, id) ==
    [created |-> id \notin requests, requests |-> requests \cup {id}]

\* The pairing reply: sent or failed, counted per sender either way.
pairingReply(r, counts, senderId, replyOk) ==
    [im |-> [r EXCEPT !.effects = @ \cup (IF replyOk THEN {"pairing-reply", "outbound"}
                                          ELSE {"pairing-reply", "reply-failed"})],
     replies |-> [counts EXCEPT ![senderId] = min(@ + 1, MaxReplies)]]

validateDmAccessAlwaysReply(r, identity, policies, requests, counts, replyOk) ==
    IF policies.dmPolicy # "pairing"
    THEN [im |-> dropped(r, "dm"), pairing |-> requests, replies |-> counts]
    ELSE LET upsert == upsertPairingRequest(requests, identity.senderId)
             q == [r EXCEPT !.effects = @ \cup {"pairing-request"}]
             sent == pairingReply(q, counts, identity.senderId, replyOk)
         IN  [im |-> dropped(sent.im, "dm"), pairing |-> upsert.requests,
              replies |-> sent.replies]

validateDmAccessNoCatch(r, identity, policies, requests, counts, replyOk) ==
    IF policies.dmPolicy # "pairing"
    THEN [im |-> dropped(r, "dm"), pairing |-> requests, replies |-> counts]
    ELSE LET upsert == upsertPairingRequest(requests, identity.senderId)
             q == [r EXCEPT !.effects = @ \cup {"pairing-request"}]
             sent == pairingReply(q, counts, identity.senderId, replyOk)
         IN  IF upsert.created
             THEN [im |-> dropped(sent.im, IF replyOk THEN "dm" ELSE "error"),
                   pairing |-> upsert.requests, replies |-> sent.replies]
             ELSE [im |-> dropped(q, "dm"), pairing |-> upsert.requests,
                   replies |-> counts]

\* validateDmAccess for a sender that is not allowed: the record, the
\* pairing requests and the counts of pairing replies after it.
validateDmAccess(r, identity, policies, requests, counts, replyOk) ==
    IF policies.dmPolicy # "pairing"
    THEN [im |-> dropped(r, "dm"), pairing |-> requests, replies |-> counts]
    ELSE LET upsert == upsertPairingRequest(requests, identity.senderId)
             q == [r EXCEPT !.effects = @ \cup {"pairing-request"}]
             sent == pairingReply(q, counts, identity.senderId, replyOk)
         IN  IF upsert.created
             THEN [im |-> dropped(sent.im, "dm"), pairing |-> upsert.requests,
                   replies |-> sent.replies]
             ELSE [im |-> dropped(q, "dm"), pairing |-> upsert.requests,
                   replies |-> counts]

\* The command gate, the route and the mention gate.
gates(r, identity, policies, groupValidation, c) ==
    LET senderAllowed == policies.dmPolicy = "open"
                         \/ isAllowedSender(policies.effectiveAllowFrom, identity.senderId)
        commandAllowFrom == IF identity.isGroup
                            THEN IF Len(groupValidation.groupUsers) > 0
                                 THEN groupValidation.groupUsers
                                 ELSE policies.effectiveGroupAllowFrom
                            ELSE policies.effectiveAllowFrom
        commandGate == resolveControlCommandGate(
                           c.useAccessGroups,
                           Len(IF identity.isGroup THEN policies.effectiveGroupAllowFrom
                               ELSE policies.effectiveAllowFrom) > 0,
                           isAllowedSender(commandAllowFrom, identity.senderId),
                           c.textCommands, r.command)
        commandAuthorized == IF identity.isGroup THEN commandGate.commandAuthorized
                             ELSE senderAllowed \/ policies.dmPolicy = "open"
        wasMentioned == identity.isGroup /\ c.mentionPatterns /\ r.mentioned
        requireMention == identity.isGroup /\ resolveRequireMention(c.groups, groupValidation)
        mentionGate == resolveMentionGatingWithBypass(identity.isGroup, requireMention,
                           c.mentionPatterns, wasMentioned, c.textCommands, r.command,
                           commandAuthorized)
        q == [r EXCEPT !.authorized = commandAuthorized]
    IN  IF identity.isGroup /\ commandGate.shouldBlock THEN dropped(q, "command")
        ELSE IF identity.isGroup /\ mentionGate.shouldSkip
        THEN dropped([q EXCEPT !.effects = @ \cup {"route"}], "mention")
        ELSE [q EXCEPT !.pc = "dispatch", !.effects = @ \cup {"route"}]

admit(r, identity, policies, groupValidation, c, requests, counts, replyOk) ==
    IF ~groupValidation.allowed
    THEN [im |-> dropped(r, "group"), pairing |-> requests, replies |-> counts]
    ELSE IF ~identity.isGroup
            /\ policies.dmPolicy # "open"
            /\ ~isAllowedSender(policies.effectiveAllowFrom, identity.senderId)
    THEN validateDmAccess(r, identity, policies, requests, counts, replyOk)
    ELSE [im |-> gates(r, identity, policies, groupValidation, c),
          pairing |-> requests, replies |-> counts]

\* From the allow-list store to the route and the mention gate.  command
\* says whether the text is a control command, mentioned whether it matches
\* a mention pattern, replyOk whether the pairing reply could be sent.
Admit(command, mentioned, replyOk) ==
    /\ im.pc = "policies"
    /\ \E identity \in {identifyMessageParticipants(im)}, policies \in {resolveMessagePolicies(cfg)} :
         \E groupValidation \in {validateGroupAccess(identity, policies, cfg)} :
           \E out \in {admit([im EXCEPT !.group = groupValidation.stage,
                                        !.command = command,
                                        !.mentioned = mentioned,
                                        !.effects = @ \cup {"policy"}],
                             identity, policies, groupValidation, cfg, pairing, replies,
                             replyOk)} :
              /\ im' = out.im
              /\ pairing' = out.pairing
              /\ replies' = out.replies
              /\ errorLog' = IF "reply-failed" \in out.im.effects
                             THEN errorLog \cup {identity.senderId} ELSE errorLog
    /\ UNCHANGED << cfg, nonInboundVars >>

\* The session record, the dispatch of the reply and markInboundMessage.
Dispatch ==
    /\ im.pc = "dispatch"
    /\ im' = [im EXCEPT !.pc = "done", !.effects = @ \cup {"session", "dispatch", "marked"}]
    /\ UNCHANGED << cfg, pairing, replies, errorLog, nonInboundVars >>

\* The handler has returned; the next message can be taken.
Returned ==
    /\ im.pc = "done"
    /\ im' = idleIm
    /\ UNCHANGED << cfg, pairing, replies, errorLog, nonInboundVars >>

InitInbound ==
    /\ cfg = BaseConfig
    /\ im = idleIm
    /\ pairing = {}
    /\ replies = [x \in SenderIds |-> 0]
    /\ errorLog = {}

NextInbound ==
    \/ \E version \in Versions, from \in Senders, to \in Recipients, selfUid \in SelfUids,
          blank \in BOOLEAN : Arrive(version, from, to, selfUid, blank)
    \/ \E command \in BOOLEAN, mentioned \in BOOLEAN, replyOk \in BOOLEAN :
          Admit(command, mentioned, replyOk)
    \/ Dispatch
    \/ Returned

(***************************************************************************)
(* Pure functions: a call takes its input from eval.arg and leaves its     *)
(* result in eval.result.                                                  *)
(***************************************************************************)

idleEval == [f |-> "none", arg |-> <<>>, result |-> <<>>, done |-> FALSE]

InitEval == eval = idleEval

\* The call returns.
Apply(f, result) ==
    /\ eval.f = f
    /\ ~eval.done
    /\ eval' = [eval EXCEPT !.result = result, !.done = TRUE]
    /\ UNCHANGED nonEvalVars

\* The next call is made.
Again(inputs) ==
    /\ eval.done
    /\ eval' \in inputs
    /\ UNCHANGED nonEvalVars

(***************************************************************************)
(* client.ts: the reconnect delay                                          *)
(***************************************************************************)

WS_RECONNECT_BASE_MS == 1000
WS_RECONNECT_MAX_MS == 15000

\* The largest reconnectAttempt for which the delay is computed.
MaxDelayAttempt == 10

\* WS_RECONNECT_BASE_MS * Math.pow(1.7, n) in microseconds, rounded down.
RECURSIVE backoffMicros(_)
backoffMicros(n) ==
    IF n = 0 THEN WS_RECONNECT_BASE_MS * 1000 ELSE (backoffMicros(n - 1) * 17) \div 10

reconnectDelayUncapped(reconnectAttempt) == backoffMicros(reconnectAttempt - 1)

\* The delay that scheduleReconnect computes, in microseconds.
reconnectDelay(reconnectAttempt) ==
    min(backoffMicros(reconnectAttempt - 1), WS_RECONNECT_MAX_MS * 1000)

\* Two attempt numbers whose delays are compared.
DelayInputs ==
    { [f |-> "reconnectDelay", arg |-> << a, b >>, result |-> <<>>, done |-> FALSE] :
        a \in 1..MaxDelayAttempt, b \in 1..MaxDelayAttempt }

InitDelay ==
    /\ InitSend
    /\ InitClient
    /\ InitApi
    /\ InitInbound
    /\ InitHook
    /\ eval \in DelayInputs

NextDelay ==
    \/ Apply("reconnectDelay", << reconnectDelay(eval.arg[1]), reconnectDelay(eval.arg[2]) >>)
    \/ Again(DelayInputs)

SpecDelay == InitDelay /\ [][NextDelay]_vars

(***************************************************************************)
(* accounts.ts: whether an account is configured                           *)
(***************************************************************************)

\* An optional string of the configuration: Unset when the key is absent,
\* else the string in a sequence of one.
Unset == <<>>
Some(value) == << value >>

ServerUrl == <<"h","t","t","p","s",":","/","/","i","m">>
ApiKey == <<"k","e","y">>
Username == <<"a","n","n">>
Password == <<"p","w">>

\* Boolean(value?.trim())
hasValue(field) == field # Unset /\ trim(field[1]) # <<>>

noFields == [serverUrl |-> Unset, apiKey |-> Unset, username |-> Unset, password |-> Unset]

validateAuthConfigKeyOnly(config) ==
    IF hasValue(config.apiKey) THEN [valid |-> TRUE, error |-> ""]
    ELSE [valid |-> FALSE, error |-> "Invalid authentication configuration"]

validateAuthConfig(config) ==
    LET hasApiKey == hasValue(config.apiKey)
        hasUsername == hasValue(config.username)
        hasPassword == hasValue(config.password)
    IN  IF hasApiKey THEN [valid |-> TRUE, error |-> ""]
        ELSE IF hasUsername /\ hasPassword THEN [valid |-> TRUE, error |-> ""]
        ELSE IF ~hasApiKey /\ ~hasUsername /\ ~hasPassword
        THEN [valid |-> FALSE,
              error |-> "Authentication required: provide apiKey or username+password"]
        ELSE IF hasUsername /\ ~hasPassword
        THEN [valid |-> FALSE, error |-> "Password required when username is provided"]
        ELSE IF hasPassword /\ ~hasUsername
        THEN [valid |-> FALSE, error |-> "Username required when password is provided"]
        ELSE [valid |-> FALSE, error |-> "Invalid authentication configuration"]

isAccountConfigured(config) ==
    IF ~hasValue(config.serverUrl) THEN FALSE
    ELSE validateAuthConfig(config).valid

\* { ...base, ...account }: a key of the account replaces that of the
\* channel section.
mergeProluofireImAccountConfig(channelConfig, accountId) ==
    IF accountId = DefaultAccount THEN channelConfig.base
    ELSE LET account == IF channelConfig.account = Unset THEN noFields
                        ELSE channelConfig.account[1]
         IN  [k \in DOMAIN noFields |->
                 IF account[k] # Unset THEN account[k] ELSE channelConfig.base[k]]

\* c.channel is Unset without a channels["proluofire-im"] section; else it
\* holds the section's own fields as base and the entry of the account
\* Alpha, Unset when accounts has none.
resolveProluofireImAccount(c, accountId) ==
    LET missing == [accountId |-> accountId, configured |-> FALSE, serverUrl |-> Some(<<>>),
                    apiKey |-> Unset, username |-> Unset, password |-> Unset]
    IN  IF c.channel = Unset THEN missing
        ELSE IF accountId # DefaultAccount /\ c.channel[1].account = Unset THEN missing
        ELSE LET accountConfig == mergeProluofireImAccountConfig(c.channel[1], accountId)
             IN  [accountId |-> accountId,
                  configured |-> isAccountConfigured(accountConfig),
                  serverUrl |-> IF accountConfig.serverUrl = Unset THEN Some(<<>>)
                                ELSE accountConfig.serverUrl,
                  apiKey |-> accountConfig.apiKey,
                  username |-> accountConfig.username,
                  password |-> accountConfig.password]

\* The fields of one section, each absent, blank or set.
FieldSets ==
    [serverUrl : {Unset, Some(Blank), Some(ServerUrl)},
     apiKey : {Unset, Some(Blank), Some(ApiKey)},
     username : {Unset, Some(Blank), Some(Username)},
     password : {Unset, Some(Blank), Some(Password)}]

\* The channel sections an account entry is merged over.
BaseSets ==
    [serverUrl : {Unset, Some(ServerUrl)}, apiKey : {Unset, Some(ApiKey)},
     username : {Unset}, password : {Unset}]

CoreConfigs ==
    {[channel |-> Unset]}
    \cup {[channel |-> Some([base |-> b, account |-> Unset])] : b \in FieldSets}
    \cup {[channel |-> Some([base |-> b, account |-> Some(a)])] : b \in BaseSets, a \in FieldSets}

AccountInputs ==
    { [f |-> "resolveProluofireImAccount", arg |-> << c, accountId >>, result |-> <<>>,
       done |-> FALSE] : c \in CoreConfigs, accountId \in {DefaultAccount, Alpha} }

InitAccount ==
    /\ InitSend
    /\ InitClient
    /\ InitApi
    /\ InitInbound
    /\ InitHook
    /\ eval \in AccountInputs

NextAccount ==
    \/ Apply("resolveProluofireImAccount", resolveProluofireImAccount(eval.arg[1], eval.arg[2]))
    \/ Again(AccountInputs)

SpecAccount == InitAccount /\ [][NextAccount]_vars

(***************************************************************************)
(* protocol.ts: normalizeTarget applied to its own result                  *)
(***************************************************************************)

\* How many pieces a target string is put together from.
MaxPieces == 3

ChannelPrefixCaps == <<"P","R","O","L","U","O","F","I","R","E","-","I","M",":">>

\* The pieces: the prefixes the normalizer looks for, the sigils, a digit,
\* letters of both cases, the wildcard, a space.
TargetPieces ==
    {ChannelPrefix, ChannelPrefixCaps, UserPrefix, GroupPrefix,
     <<"@">>, <<"#">>, <<"7">>, <<"a">>, <<"B">>, <<"*">>, <<" ">>}

RECURSIVE TargetStrings(_)
TargetStrings(n) ==
    IF n = 0 THEN {<<>>}
    ELSE TargetStrings(n - 1) \cup {piece \o rest : piece \in TargetPieces, rest \in TargetStrings(n - 1)}

TargetInputs ==
    { [f |-> "normalizeTarget", arg |-> x, result |-> <<>>, done |-> FALSE] :
        x \in TargetStrings(MaxPieces) }

InitTarget ==
    /\ InitSend
    /\ InitClient
    /\ InitApi
    /\ InitInbound
    /\ InitHook
    /\ eval \in TargetInputs

\* The result holds normalizeTarget(x) and normalizeTarget of that.
NextTarget ==
    \/ Apply("normalizeTarget",
             << normalizeTarget(eval.arg), normalizeTarget(normalizeTarget(eval.arg)) >>)
    \/ Again(TargetInputs)

SpecTarget == InitTarget /\ [][NextTarget]_vars

(***************************************************************************)
(* gateway/auth.ts: authorizeGatewayConnect, as gateway/auth.test.ts       *)
(* exercises it with allowTailscale false                                  *)
(***************************************************************************)

Secret == <<"s","e","c","r","e","t">>
Wrong == <<"w","r","o","n","g">>

\* The secret of the mode in a record with fields token and password.
secretOf(mode, fields) == IF mode = "token" THEN fields.token ELSE fields.password

denied(mode, suffix) == [ok |-> FALSE, reason |-> << mode, suffix >>]

authorizeGatewayConnectPresented(auth, connectAuth) ==
    IF auth.mode = "none" THEN [ok |-> TRUE, reason |-> <<>>]
    ELSE IF secretOf(auth.mode, auth) = Unset THEN denied(auth.mode, "missing_config")
    ELSE IF secretOf(auth.mode, connectAuth) = Unset THEN denied(auth.mode, "missing")
    ELSE [ok |-> TRUE, reason |-> <<>>]

\* auth is the gateway's configuration, connectAuth what the connection
\* presented (Unset fields when it presented nothing).
authorizeGatewayConnect(auth, connectAuth) ==
    IF auth.mode = "none" THEN [ok |-> TRUE, reason |-> <<>>]
    ELSE IF secretOf(auth.mode, auth) = Unset THEN denied(auth.mode, "missing_config")
    ELSE IF secretOf(auth.mode, connectAuth) = Unset THEN denied(auth.mode, "missing")
    ELSE IF secretOf(auth.mode, connectAuth) # secretOf(auth.mode, auth)
    THEN denied(auth.mode, "mismatch")
    ELSE [ok |-> TRUE, reason |-> <<>>]

Secrets == {Unset, Some(Secret), Some(Wrong)}

AuthInputs ==
    { [f |-> "authorizeGatewayConnect",
       arg |-> << [mode |-> mode, token |-> t, password |-> p],
                  [token |-> ct, password |-> cp] >>,
       result |-> <<>>, done |-> FALSE] :
        mode \in {"none", "token", "password"}, t \in Secrets, p \in Secrets,
        ct \in Secrets, cp \in Secrets }

InitAuth ==
    /\ InitSend
    /\ InitClient
    /\ InitApi
    /\ InitInbound
    /\ InitHook
    /\ eval \in AuthInputs

NextAuth ==
    \/ Apply("authorizeGatewayConnect", authorizeGatewayConnect(eval.arg[1], eval.arg[2]))
    \/ Again(AuthInputs)

SpecAuth == InitAuth /\ [][NextAuth]_vars

(***************************************************************************)
(* client.ts: parseInboundMessage, and the messages of the push connection *)
(*                                                                         *)
(* A frame is the decoded JSON of a WebSocket message, after the data and  *)
(* payload wrappers are resolved: rootEventType is payload.eventType ("" if *)
(* it is not a string), dataEventType is data.eventType, and the other     *)
(* fields are those of the message payload; uid is data.uid.  A field that *)
(* is absent is Unset.                                                     *)
(***************************************************************************)

MessageEvent == "ImMessageEvent"
TypingEvent == "ImTypingEvent"
TextType == <<"T","e","x","t">>
TextLower == <<"t","e","x","t">>
CodeOne == <<"1">>
ImageType == <<"i","m","a","g","e">>
UserType == <<"U","s","e","r">>
UserLower == <<"u","s","e","r">>
SystemType == <<"S","y","s","t","e","m">>
Hi == <<"h","i">>
Eight == <<"8">>

valueOr(field, default) == IF field = Unset THEN default ELSE field[1]

\* normalizeId(value) of a string, or of nothing
normalizeId(field) == IF field = Unset THEN <<>> ELSE trim(field[1])

\* The message a frame is parsed to.
parsedMessage(to, roomId, userId) ==
    Some([from |-> UserPrefix \o userId, to |-> to, roomId |-> roomId])

parseInboundMessageToRoom(p) ==
    parsedMessage(GroupPrefix \o normalizeId(p.roomId), normalizeId(p.roomId),
                  normalizeId(IF p.userId # Unset THEN p.userId ELSE p.uid))

\* parseInboundMessage(payload): Unset for null.
parseInboundMessage(p) ==
    LET eventType == valueOr(p.dataEventType, p.rootEventType)
        contentType == valueOr(p.contentType, <<>>)
        messageType == valueOr(p.messageType, <<>>)
        content == valueOr(p.content, <<>>)
        roomId == normalizeId(p.roomId)
        userId == normalizeId(IF p.userId # Unset THEN p.userId ELSE p.uid)
    IN  IF eventType # "" /\ eventType # MessageEvent THEN Unset
        ELSE IF contentType # <<>> /\ toLowerCase(contentType) # TextLower /\ contentType # CodeOne
        THEN Unset
        ELSE IF messageType # <<>> /\ toLowerCase(messageType) # UserLower THEN Unset
        ELSE IF p.isWithdraw THEN Unset
        ELSE IF trim(content) = <<>> THEN Unset
        ELSE IF roomId = <<>> \/ userId = <<>> THEN Unset
        ELSE parsedMessage(<<>>, roomId, userId)

\* Frames that parse to a message.
GoodFrames ==
    { [rootEventType |-> "", dataEventType |-> e, contentType |-> ct, messageType |-> mt,
       isWithdraw |-> FALSE, content |-> Some(Hi), roomId |-> Some(room), userId |-> u,
       uid |-> Some(Ann)] :
        e \in {Unset, Some(MessageEvent)}, ct \in {Unset, Some(TextType), Some(CodeOne)},
        mt \in {Unset, Some(UserType)}, room \in {Seven, Eight},
        u \in {Unset, Some(Bot), Some(Ann)} }

GoodFrame ==
    [rootEventType |-> MessageEvent, dataEventType |-> Unset, contentType |-> Some(TextType),
     messageType |-> Some(UserType), isWithdraw |-> FALSE, content |-> Some(Hi),
     roomId |-> Some(Eight), userId |-> Some(Ann), uid |-> Unset]

\* Frames with one field that makes parseInboundMessage return null.
BadFrames ==
    { [GoodFrame EXCEPT !.rootEventType = TypingEvent],
      [GoodFrame EXCEPT !.dataEventType = Some(TypingEvent)],
      [GoodFrame EXCEPT !.contentType = Some(ImageType)],
      [GoodFrame EXCEPT !.messageType = Some(SystemType)],
      [GoodFrame EXCEPT !.isWithdraw = TRUE],
      [GoodFrame EXCEPT !.content = Some(Blank)],
      [GoodFrame EXCEPT !.content = Unset],
      [GoodFrame EXCEPT !.roomId = Unset],
      [GoodFrame EXCEPT !.userId = Unset] }

Frames == GoodFrames \cup BadFrames \cup {GoodFrame}

\* ws.on("message") for a frame that is JSON: parseInboundMessage, and for a
\* message the handler the monitor registered, handleIncomingMessage, up to
\* its first await.  The parsed message has content and no selfUid.
Frame(version, payload) ==
    /\ im.pc = "idle"
    /\ \E parsed \in {parseInboundMessage(payload)} :
         /\ parsed # Unset
         /\ \E r \in {[im EXCEPT !.version = version, !.from = parsed[1].from,
                                   !.to = parsed[1].to, !.roomId = parsed[1].roomId]} :
              im' = IF version = "helpers"
                       /\ isSelfMessage(identifyMessageParticipants(r).senderId, cfg.botUid, <<>>)
                    THEN dropped(r, "self")
                    ELSE [r EXCEPT !.pc = "policies", !.effects = {"inbound"}]
    /\ UNCHANGED << cfg, pairing, replies, errorLog, nonInboundVars >>

NextPush ==
    \/ \E version \in Versions, payload \in Frames : Frame(version, payload)
    \/ \E command \in BOOLEAN, mentioned \in BOOLEAN, replyOk \in BOOLEAN :
          Admit(command, mentioned, replyOk)
    \/ Dispatch
    \/ Returned

InitWebhook ==
    /\ InitSend
    /\ InitClient
    /\ InitApi
    /\ InitInbound
    /\ InitEval
    /\ req = idleReq
    /\ \E order \in Orders, shared \in SUBSET Accounts :
         /\ webhookTargets = registerAll([k \in {} |-> <<>>], order, shared)
         /\ clientInstances = {order[i] : i \in 1..Len(order)}
         /\ gw = [a \in Accounts |->
                    IF has(order, a)
                    THEN [idleAccount EXCEPT
                             !.pc = "monitoring", !.listening = TRUE, !.running = TRUE,
                             !.path = resolveWebhookPath(a, IF a \in shared THEN SharedPath
                                                           ELSE "")]
                    ELSE idleAccount]

InitPolicy ==
    /\ InitSend
    /\ InitClient
    /\ InitApi
    /\ InitHook
    /\ InitEval
    /\ cfg \in Configs
    /\ im = idleIm
    /\ pairing = {}
    /\ replies = [x \in SenderIds |-> 0]
    /\ errorLog = {}

Init ==
    /\ InitSend
    /\ InitClient
    /\ InitApi
    /\ InitInbound
    /\ InitHook
    /\ InitEval

SpecSeq == Init /\ [][NextSeq]_vars

SpecConc == Init /\ [][NextConc]_vars

InitR ==
    /\ InitRetry
    /\ InitClient
    /\ InitApi
    /\ InitInbound
    /\ InitHook
    /\ InitEval

SpecRetry == InitR /\ [][NextRetry]_vars

SpecClient == Init /\ [][NextClient]_vars

SpecApi == Init /\ [][NextApi]_vars

SpecGateway == Init /\ [][NextGateway]_vars

SpecStatus == Init /\ [][NextStatus]_vars

InitOverlap ==
    /\ InitSend
    /\ InitClient
    /\ InitApi
    /\ InitInbound
    /\ InitRestart
    /\ InitEval

SpecRestart == InitOverlap /\ [][NextRestart]_vars

SpecWebhook == InitWebhook /\ [][NextWebhook]_vars

SpecInbound == InitPolicy /\ [][NextInbound]_vars

SpecPush == InitPolicy /\ [][NextPush]_vars

SpecGatewayFair == Init /\ [][NextGateway]_vars /\ FairGateway

\* A pending timeout fires; a handshake in progress ends, in an open socket or
\* in a failure; a socket that is closing ends closed.
FairClient ==
    /\ WF_vars(TimerFire)
    /\ \A s \in SockIds : WF_vars(SockOpen(s) \/ SockFail(s))
    /\ \A s \in SockIds : WF_vars(sock[s].state = "CLOSING" /\ SockClose(s))

SpecClientFair == Init /\ [][NextClient]_vars /\ FairClient

(***************************************************************************)
(* Properties of the delivery pipeline                                     *)
(***************************************************************************)

transientMarked(errorMessage) ==
    LET message == toLowerCase(errorMessage)
    IN  \/ includes(message, NetworkMarker) \/ includes(message, TimeoutMarker)
        \/ includes(message, ConnRefusedMarker) \/ includes(message, ServerErrorMarker)
        \/ includes(message, Marker503) \/ includes(message, Marker502)

terminalMarked(errorMessage) ==
    LET message == toLowerCase(errorMessage)
    IN  \/ includes(message, RateLimitMarker) \/ includes(message, NotFoundMarker)
        \/ includes(message, UnauthorizedMarker) \/ includes(message, ForbiddenMarker)
        \/ includes(message, InvalidMarker)

\* C1: for one normalized target and sends that follow one another, a call
\* succeeds exactly when fewer than 20 sends have succeeded in the window that
\* the first call opened, or when the call is made 60000 ms or more after that
\* window opened (it then opens a fresh window); the 21st call inside a window
\* fails with a rate-limit error.
C1_RateLimitBoundary ==
    \A c \in Callers :
        /\ calls[c].pc \in {"checked", "ok"} => calls[c].expect = "ok"
        /\ calls[c].pc = "failed" =>
              /\ calls[c].expect = "rate-limited"
              /\ includes(toLowerCase(calls[c].error), RateLimitMarker)

\* A 21st call made in the last millisecond of its window has failed.
C1_Witness ==
    LET n == normalizeTarget(Room42)
    IN  /\ calls["c1"].pc = "failed"
        /\ n \in DOMAIN obs
        /\ obs[n].sent = RATE_LIMIT_MAX_MESSAGES
        /\ now = obs[n].start + RATE_LIMIT_WINDOW_MS - 1

\* C2: under any interleaving of concurrent sends to one normalized target,
\* the number of sends that succeed within one window never exceeds 20.
C2_WindowCountAtMostMax ==
    \A n \in DOMAIN rateLimitState : rateLimitState[n].count <= RATE_LIMIT_MAX_MESSAGES

\* C3: an attempt of sendMessageWithRetry that failed with a rate-limit error,
\* or with an error marked not found, unauthorized, forbidden or invalid, is
\* followed by no further attempt: that error is thrown to the caller.
C3_TerminalErrorNeverRetried ==
    (retry.lastError # NoError /\ terminalMarked(retry.lastError)) =>
        (retry.pc = "thrown" /\ retry.thrown = retry.lastError)

C5_Safety ==
    /\ retry.sends <= retry.maxRetries
    /\ retry.pc = "returned" => retry.sends = retry.attempt + 1
    /\ (retry.pc = "thrown" /\ retry.sends > 0) =>
          (retry.lastFailure # NoError /\ retry.thrown = retry.lastFailure)
    /\ (retry.pc = "thrown" /\ retry.sends < retry.maxRetries) =>
          ~isRetryableError(retry.lastFailure)

\* The steps a call of sendMessageWithRetry still has before it: its steps
\* (RetryFinish when "checked", RetryWake when "backoff") are never blocked,
\* so the call terminates if every one of them lowers this number.
retryStepsLeft(r) ==
    (r.maxRetries - r.sends) + (IF r.pc \in {"checked", "backoff"} THEN 1 ELSE 0)

C5_Progress ==
    (retry.pc \in {"checked", "backoff"} /\ retry' # retry) =>
        (retryStepsLeft(retry') < retryStepsLeft(retry) /\ retryStepsLeft(retry') >= 0)

\* C5: sendMessageWithRetry terminates: it calls the underlying send at most
\* maxRetries times, returns at the attempt that succeeds, and when its
\* attempts fail it throws the error of the last attempt.
C5_RetryTerminates == []C5_Safety /\ [][C5_Progress]_vars

\* Every one of the three attempts of a default call has failed.
C5_Witness ==
    /\ retry.pc = "thrown"
    /\ retry.maxRetries = MaxRetriesArg
    /\ retry.sends = retry.maxRetries

(***************************************************************************)
(* Connection client: properties                                           *)
(***************************************************************************)

\* C6: the promise that connect() awaits settles exactly once: it is rejected
\* only if the socket closed without ever opening, it is resolved exactly if
\* the socket opened, it is pending exactly while the handshake is in
\* progress, and once settled its outcome never changes, whatever close or
\* error events follow.
C6_Settled ==
    \A s \in SockIds : sock[s].owner = "connect" =>
        /\ sock[s].settles <= 1
        /\ sock[s].result = "pending" <=> sock[s].state = "CONNECTING"
        /\ sock[s].result = "resolved" <=> sock[s].opened
        /\ sock[s].result = "rejected" => (~sock[s].opened /\ sock[s].state = "CLOSED")

C6_Stable ==
    \A s \in SockIds :
        (sock[s].owner = "connect" /\ sock[s].result \in {"resolved", "rejected"}
            /\ sock'[s].state # "free" /\ sock'[s].state # "CONNECTING")
        => sock'[s].result = sock[s].result

C7_NoTimer == client.closing => client.reconnectTimer = "none"

C7_NoNewSocket ==
    (client.closing /\ client'.closing) =>
        \A s \in SockIds : sock'[s].state = "CONNECTING" => sock[s].state = "CONNECTING"

C7_QuietAfterDisconnect == []C7_NoTimer /\ [][C7_NoNewSocket]_vars

\* A socket that the reconnect timer had created has just failed after
\* disconnect(), and no timer is pending.
C7_Witness ==
    /\ client.closing /\ client.reconnectTimer = "none"
    /\ \E s \in SockIds : sock[s].owner = "timer" /\ sock[s].result = "rejected"

C9_AtMostOneSocket ==
    Cardinality({s \in SockIds : sock[s].state \in {"CONNECTING", "OPEN"}}) <= 1

\* C10: after disconnect() and until the next connect() the connected flag is
\* false.
C10_ConnectedFalseAfterDisconnect == client.closing => ~client.connected

\* C11: a client.sendMessage call made while the client is not connected, or
\* with a non-empty attachments list, has failed by the time the call returns
\* its promise, and has issued no request.
C11_SendFailsFast ==
    (http.pc # "idle" /\ (~http.connected \/ http.attachments)) =>
        /\ http.pc = "done"
        /\ http.outcome \in {"not-connected", "attachments"}
        /\ ~http.issued

\* A call with attachments on a connected client has failed without a request.
C11_Witness ==
    /\ http.pc = "done" /\ http.connected /\ http.attachments
    /\ http.outcome = "attachments" /\ ~http.issued

\* C12: the reconnect delay of attempts 1 to 10 never exceeds 15000 ms and
\* does not decrease from one attempt to a later one.
C12_DelayMonotoneCapped ==
    (eval.f = "reconnectDelay" /\ eval.done) =>
        /\ eval.result[1] <= WS_RECONNECT_MAX_MS * 1000
        /\ eval.result[1] >= WS_RECONNECT_BASE_MS * 1000
        /\ eval.arg[1] <= eval.arg[2] => eval.result[1] <= eval.result[2]

\* The delays of attempts 5 and 10: 8352.1 ms and the cap.
C12_Witness ==
    /\ eval.f = "reconnectDelay" /\ eval.done /\ eval.arg = << 5, 10 >>
    /\ eval.result = << 8352100, WS_RECONNECT_MAX_MS * 1000 >>

(***************************************************************************)
(* The life of an account: properties                                      *)
(***************************************************************************)

registered(a) == \E k \in DOMAIN webhookTargets : has(webhookTargets[k], a)

\* What handleProluofireImWebhookRequest requires of a path to handle it.
matched(path) == path \in DOMAIN webhookTargets /\ Len(webhookTargets[path]) > 0

\* C13: once the abort signal of an account is raised, startAccount
\* eventually returns with the account unregistered and marked stopped.
C13_AbortStops ==
    \A a \in Accounts :
        gw[a].aborted ~>
            (gw[a].pc = "returned" /\ ~gw[a].running /\ ~registered(a) /\ a \notin clientInstances)

\* C14: an account whose monitor has stopped has no webhook registration and
\* no webhook client entry, and a path is matched only while an account whose
\* monitor runs is registered on it.
C14_StoppedLeavesNothing ==
    /\ \A a \in Accounts :
          gw[a].pc \in {"stopping", "returned"} => (~registered(a) /\ a \notin clientInstances)
    /\ \A path \in Paths :
          matched(path) => \E a \in Accounts : gw[a].pc = "monitoring" /\ gw[a].path = path

\* One of two accounts on the shared path has stopped; the other is still
\* registered there.
C14_Witness ==
    /\ gw[Alpha].pc = "returned" /\ gw[Alpha].aborted /\ gw[Alpha].path = SharedPath
    /\ matched(SharedPath) /\ webhookTargets[SharedPath] = << DefaultAccount >>

\* The account ids a request carries in its query, header and payload.
carried == {trim(x) : x \in {req.query, req.header, req.payload}} \ {<<>>}

answered == req.pc = "done" /\ req.status \in {"200", "404"}

\* C15: a POST to a registered path that carries an account id is processed
\* by the registration with exactly that account id and by no other; when no
\* registration of the path has that id the answer is 404 and nothing is
\* processed.
C15_HintRoutes ==
    (answered /\ Cardinality(carried) = 1) =>
        \A h \in carried :
            IF has(req.targets, h)
            THEN req.status = "200" /\ req.processed = << h >>
            ELSE req.status = "404" /\ req.processed = <<>>

\* C16: a POST to a registered path that carries no account id is processed
\* by the only registration when there is one, and otherwise by exactly one:
\* the default account's when it is registered, else the first registered.
C16_NoHintFallback ==
    (answered /\ carried = {}) =>
        /\ req.status = "200"
        /\ req.processed =
             << IF has(req.targets, DefaultAccount) THEN DefaultAccount ELSE req.targets[1] >>

C16_Witness ==
    /\ answered
    /\ carried = {}
    /\ Len(req.targets) = 2
    /\ req.targets[2] = DefaultAccount
    /\ req.processed = << DefaultAccount >>

C16_WitnessFirst ==
    /\ answered
    /\ carried = {}
    /\ req.targets = << AlphaCaps, Alpha >>
    /\ req.processed = << AlphaCaps >>

bodyRead == req.pc \in {"processing", "done"} /\ req.status \notin {"unhandled", "405"}

\* C17: a request whose body was read has one outcome.  More than 1 MiB
\* accumulated is answered 413; a body that ends empty, blank or not JSON
\* within the cap is answered 400; in both cases no registration is
\* processed; and only a JSON body within the cap goes on to routing.
C17_BodyOutcome ==
    bodyRead =>
        /\ (req.total > WEBHOOK_MAX_BYTES) <=> (req.status = "413")
        /\ (req.status = "413") <=> (req.text = "payload too large")
        /\ req.status = "400" <=> req.text \in {"empty payload", "invalid json", "read error"}
        /\ req.text = "empty payload" <=>
             (req.status = "400" /\ req.text # "read error" /\ (req.chunks = 0 \/ req.kind = "blank"))
        /\ req.text = "invalid json" => (req.chunks > 0 /\ req.kind = "garbage")
        /\ (req.status \in {"400", "413"}) => (req.processed = <<>> /\ req.delivered = <<>>)
        /\ (req.status \notin {"400", "413"}) =>
             (req.chunks > 0 /\ req.kind \in {"message", "event"} /\ req.total <= WEBHOOK_MAX_BYTES)

C17_Witness ==
    /\ req.pc = "done"
    /\ req.status = "413"
    /\ req.total = WEBHOOK_MAX_BYTES + 1
    /\ req.kind = "message"

C17_WitnessAtCap ==
    /\ req.pc = "done"
    /\ req.status = "200"
    /\ req.total = WEBHOOK_MAX_BYTES

\* C18: once a request has passed the method, body and account checks, each
\* step either attempts the next matched registration, whether or not the
\* attempt before it failed, or, after the last one, answers 200 with the
\* acknowledgement; the answered request has attempted every matched
\* registration.
C18_AllAttempted ==
    [][req.pc = "processing" =>
          LET matching == matchingTargets(req.targets,
                              readAccountHint(req.query, req.header, req.payload))
          IN  \/ /\ req'.pc = "processing"
                 /\ Len(req.processed) < Len(matching)
                 /\ req'.processed = Append(req.processed, matching[Len(req.processed) + 1])
              \/ /\ req'.pc = "done"
                 /\ req'.status = "200"
                 /\ req'.text = "{success:true}"
                 /\ req'.processed = matching]_vars

C18_Witness ==
    /\ req.pc = "done"
    /\ req.status = "200"
    /\ Len(req.processed) = 2
    /\ req.failed = << req.processed[1] >>

\* The sender of the message is the account's configured bot identity.
fromBot ==
    /\ cfg.botUid # <<>>
    /\ normalizeProluofireImUserId(im.from) = normalizeProluofireImUserId(cfg.botUid)

\* C19: a message whose sender is the configured bot identity is dropped
\* before anything else: no policy evaluation, pairing request, pairing
\* reply, routing, session record or dispatch happens for it.
C19_SelfNeverEvaluated ==
    (im.pc # "idle" /\ fromBot) =>
        /\ im.pc = "done"
        /\ im.effects \cap {"policy", "pairing-request", "pairing-reply", "route",
                            "session", "dispatch"} = {}

\* The effective group policy and whether the message's group has an entry.
effectiveGroupPolicy == IF cfg.groupPolicy = "unset" THEN "allowlist" ELSE cfg.groupPolicy

groupListed ==
    \E i \in 1..Len(cfg.groups) :
        \/ cfg.groups[i].key = Star
        \/ normalizeProluofireImGroupId(cfg.groups[i].key) = normalizeProluofireImGroupId(im.to)

passedGroupAdmission == im.group \in {"sender", "admitted"}

\* C20: group admission of a group message.  Under disabled it is dropped;
\* under open it passes; under allowlist it passes exactly when its group id
\* matches a configured entry or the * entry, so never when no entry is
\* configured.
C20_GroupAdmission ==
    im.group # "" =>
        /\ effectiveGroupPolicy = "disabled" => (im.group = "disabled" /\ im.pc = "done")
        /\ effectiveGroupPolicy = "open" => passedGroupAdmission
        /\ effectiveGroupPolicy = "allowlist" => (passedGroupAdmission <=> groupListed)
        /\ (effectiveGroupPolicy = "allowlist" /\ cfg.groups = <<>>) =>
              (im.group = "not-allowlisted" /\ im.pc = "done")
        /\ ~passedGroupAdmission =>
              im.effects \cap {"route", "session", "dispatch", "pairing-request"} = {}

C20_Witness ==
    /\ im.group = "admitted"
    /\ effectiveGroupPolicy = "allowlist"
    /\ im.to = GroupEight
    /\ \A i \in 1..Len(cfg.groups) : cfg.groups[i].key = Star
    /\ "dispatch" \in im.effects

C20_WitnessEmpty ==
    /\ im.group = "not-allowlisted"
    /\ cfg.groupPolicy = "allowlist"
    /\ cfg.groups = <<>>

\* The sender id of the message, and the index of the group entry the
\* message matched: its own entry or, when it has none, the * entry.
senderOf == normalizeProluofireImUserId(normalizeTarget(im.from))

specificEntries ==
    {i \in 1..Len(cfg.groups) :
        normalizeProluofireImGroupId(cfg.groups[i].key) = normalizeProluofireImGroupId(im.to)}

wildcardEntries == {i \in 1..Len(cfg.groups) : cfg.groups[i].key = Star}

matchedEntries == IF specificEntries # {} THEN specificEntries ELSE wildcardEntries

listed(list, id) == has(normalizeAllowlist(list), Star) \/ has(normalizeAllowlist(list), id)

\* C21: when the group entry a message matched, its own entry or else the *
\* entry, lists users, the message is admitted only if its sender is in that
\* list or the list contains *.
C21_GroupUsersRestrict ==
    im.group = "admitted" =>
        \A i \in matchedEntries :
            cfg.groups[i].users # <<>> => listed(cfg.groups[i].users, senderOf)

\* C22: a group message that passed group admission, whose matched group
\* lists no users, under a configuration with no channel-level group
\* allow-list, is admitted whoever sent it and whatever the direct-message
\* allow-list and the pairing-approval store hold.
C22_EmptyListAdmits ==
    (/\ passedGroupAdmission
     /\ \A i \in matchedEntries : cfg.groups[i].users = <<>>
     /\ cfg.groupAllowFrom = <<>>) => im.group = "admitted"

\* A direct message has been through the direct-message policy.
dmEvaluated == im.pc \in {"dispatch", "done"} /\ "policy" \in im.effects /\ im.group = ""

dmAdmitted == dmEvaluated /\ im.drop = ""

dmLists == normalizeAllowlist(cfg.allowFrom) \o normalizeAllowlist(cfg.store)

\* C23 as stated: a direct message is admitted under dmPolicy open for any
\* sender, and under allowlist or pairing only if its sender is an entry of
\* the configured allow-list or of the pairing-approval store.
C23_DmAdmissionListed ==
    /\ dmEvaluated /\ cfg.dmPolicy = "open" => dmAdmitted
    /\ dmAdmitted /\ cfg.dmPolicy # "open" => has(dmLists, senderOf)

\* C23, amended: a direct message is admitted under dmPolicy open for any
\* sender, and under allowlist or pairing only if its sender is an entry of
\* the configured allow-list or of the pairing-approval store, or one of the
\* two holds the entry *.
C23_DmAdmission ==
    /\ dmEvaluated /\ cfg.dmPolicy = "open" => dmAdmitted
    /\ dmAdmitted /\ cfg.dmPolicy # "open" => has(dmLists, senderOf) \/ has(dmLists, Star)

\* A listed sender is admitted under allowlist.
C23_Witness ==
    dmAdmitted /\ cfg.dmPolicy = "allowlist" /\ senderOf = Ann /\ cfg.allowFrom = << Ann >>

\* An unlisted sender is admitted under open with no lists at all.
C23_WitnessOpen ==
    dmAdmitted /\ cfg.dmPolicy = "open" /\ dmLists = <<>>

\* A direct message under dmPolicy pairing from a sender no list admits has
\* been through the direct-message policy.
unlistedUnderPairing ==
    /\ dmEvaluated
    /\ cfg.dmPolicy = "pairing"
    /\ ~listed(dmLists, senderOf)

\* C24: under dmPolicy pairing every direct message from an unlisted sender
\* is dropped, and over any sequence of such messages the sender has a
\* pairing request outstanding and exactly one pairing reply has been
\* attempted for it; no sender ever has more than one reply attempted.
C24_OnePairingReply ==
    /\ \A s \in SenderIds : replies[s] = (IF s \in pairing THEN 1 ELSE 0)
    /\ unlistedUnderPairing =>
          /\ im.drop = "dm"
          /\ "dispatch" \notin im.effects /\ "route" \notin im.effects
          /\ senderOf \in pairing

\* The second message of an unlisted sender: the request is already
\* outstanding, the message is dropped and no reply is attempted for it.
C24_Witness ==
    /\ unlistedUnderPairing
    /\ im.pc = "done"
    /\ "pairing-request" \in im.effects
    /\ "pairing-reply" \notin im.effects
    /\ replies[senderOf] = 1

\* C25: a pairing reply that fails is logged and nothing more: the message
\* that triggered it is dropped as any other direct message of an unlisted
\* sender, with no route, session or dispatch, the handler returns to idle,
\* and the messages handled afterwards are admitted or dropped as the policy
\* says.
C25_ReplyFailureLogged ==
    /\ "reply-failed" \in im.effects =>
          /\ im.pc = "done" /\ im.drop = "dm"
          /\ senderOf \in errorLog /\ senderOf \in pairing
          /\ im.effects \cap {"outbound", "route", "session", "dispatch", "marked"} = {}
    /\ errorLog # {} /\ im.pc = "idle" => im = idleIm
    /\ errorLog # {} /\ dmEvaluated =>
          IF cfg.dmPolicy = "open" \/ listed(dmLists, senderOf)
          THEN im.drop = "" ELSE im.drop = "dm"

\* The reply to one sender failed, and a later message of a listed sender
\* has been dispatched.
C25_Witness ==
    /\ errorLog # {}
    /\ senderOf \notin errorLog
    /\ dmAdmitted /\ "dispatch" \in im.effects

\* The message whose reply failed, dropped.
C25_WitnessFailed ==
    "reply-failed" \in im.effects /\ im.pc = "done"

\* The sender is in none of the allow-lists of the configuration: not in
\* the users of a matched group entry, not in groupAllowFrom, not in
\* allowFrom, not in the pairing-approval store.
inNoAllowList ==
    /\ \A i \in matchedEntries : ~listed(cfg.groups[i].users, senderOf)
    /\ ~listed(cfg.groupAllowFrom, senderOf)
    /\ ~listed(dmLists, senderOf)

\* The policy steps have run on a message that is a control command.
commandEvaluated ==
    im.pc \in {"dispatch", "done"} /\ "policy" \in im.effects /\ im.command

\* C26: with access groups enforced, a control command whose sender is in
\* no allow-list is dropped, and is neither routed nor dispatched.
C26_UnlistedCommandDropped ==
    commandEvaluated /\ cfg.useAccessGroups /\ inNoAllowList =>
        /\ im.drop # ""
        /\ "route" \notin im.effects
        /\ "dispatch" \notin im.effects

\* Neither the entry of the message's group nor the * entry sets
\* requireMention.
requireMentionUnset ==
    \A i \in specificEntries \cup wildcardEntries : cfg.groups[i].requireMention = "unset"

\* A group message whose text mentions nobody has passed group and sender
\* admission, in a group that leaves requireMention unset.
unmentionedInGroup ==
    /\ im.pc \in {"dispatch", "done"}
    /\ im.group = "admitted"
    /\ ~im.mentioned
    /\ requireMentionUnset

C27_WitnessBypass ==
    /\ unmentionedInGroup /\ im.command /\ im.authorized
    /\ cfg.mentionPatterns /\ cfg.textCommands
    /\ im.pc = "dispatch"

\* The message was dropped by one of the policy steps.
policyDropped == im.pc = "done" /\ im.drop \in {"group", "dm", "command", "mention"}

\* C28: a message dropped at a policy step has had no effect but the
\* evaluation of the policy itself and, under pairing, the pairing request
\* and its reply: no status update for the inbound message, no route, no
\* session record, no dispatch.
C28_DropHasNoEffect ==
    policyDropped =>
        im.effects \subseteq
            {"policy", "pairing-request", "pairing-reply", "outbound", "reply-failed"}

(***************************************************************************)
(* Properties of the account resolution                                    *)
(***************************************************************************)

resolved == eval.f = "resolveProluofireImAccount" /\ eval.done

hasKeyScheme == hasValue(eval.result.apiKey)

hasPasswordScheme == hasValue(eval.result.username) /\ hasValue(eval.result.password)

\* C29 as stated: the resolved account is configured exactly when its
\* server URL is not blank and exactly one of the two credential schemes,
\* the API key or the username with its password, is fully present.
C29_ConfiguredExactlyOne ==
    resolved =>
        (eval.result.configured <=>
            /\ hasValue(eval.result.serverUrl)
            /\ hasKeyScheme # hasPasswordScheme)

\* C29, amended: the resolved account is configured exactly when its server
\* URL is not blank and at least one of the two credential schemes is fully
\* present.
C29_Configured ==
    resolved =>
        (eval.result.configured <=>
            /\ hasValue(eval.result.serverUrl)
            /\ (hasKeyScheme \/ hasPasswordScheme))

\* A named account that takes its server URL from the channel section and
\* brings its own username and password.
C29_Witness ==
    /\ resolved
    /\ eval.arg[2] = Alpha
    /\ eval.arg[1].channel # Unset
    /\ eval.arg[1].channel[1].account = Some([noFields EXCEPT !.username = Some(Username),
                                                              !.password = Some(Password)])
    /\ eval.arg[1].channel[1].base.apiKey = Unset
    /\ eval.result.configured

\* Both schemes present at once.
C29_WitnessBoth ==
    resolved /\ hasKeyScheme /\ hasPasswordScheme /\ eval.result.configured

(***************************************************************************)
(* Properties of the target normalizer                                     *)
(***************************************************************************)

\* C30: normalizeTarget(normalizeTarget(x)) = normalizeTarget(x) for every
\* target string x.
C30_Idempotent ==
    (eval.f = "normalizeTarget" /\ eval.done) => eval.result[2] = eval.result[1]

(***************************************************************************)
(* Properties of the runtime status                                        *)
(***************************************************************************)

\* C31: while an account's monitor runs, a connection that the client has
\* reported as lost is recorded in the account's runtime status: lastError
\* is set.
C31_DropRecorded ==
    \A a \in Accounts :
        gw[a].pc = "monitoring" /\ gw[a].conn = "disconnected" => gw[a].lastError # "null"

(***************************************************************************)
(* Further properties of the connection client                             *)
(***************************************************************************)

\* C32: connect() on a client that was given a user name and a password
\* but no API key starts a connection: after the call the client has a
\* socket.
C32_BasicAuthConnects ==
    [][(Connect /\ client.auth = "basic") => client'.ws # 0]_vars

(***************************************************************************)
(* Properties of the gateway's connection authorization                    *)
(***************************************************************************)

authorized == eval.f = "authorizeGatewayConnect" /\ eval.done /\ eval.arg[1].mode # "none"

configuredSecret == secretOf(eval.arg[1].mode, eval.arg[1])

presentedSecret == secretOf(eval.arg[1].mode, eval.arg[2])

\* C33: in mode token or password the connection is authorized exactly
\* when a secret is configured and the presented secret equals it; the
\* reason is <mode>_missing when one is configured and none presented,
\* <mode>_mismatch when the presented one differs from the configured one,
\* <mode>_missing_config when one is presented and none configured.
C33_SharedSecret ==
    authorized =>
        /\ eval.result.ok <=> (configuredSecret # Unset /\ presentedSecret = configuredSecret)
        /\ configuredSecret # Unset /\ presentedSecret = Unset =>
              eval.result.reason = << eval.arg[1].mode, "missing" >>
        /\ configuredSecret # Unset /\ presentedSecret \notin {Unset, configuredSecret} =>
              eval.result.reason = << eval.arg[1].mode, "mismatch" >>
        /\ configuredSecret = Unset /\ presentedSecret # Unset =>
              eval.result.reason = << eval.arg[1].mode, "missing_config" >>

\* The mismatch of the test: token secret configured, token wrong presented.
C33_Witness ==
    /\ authorized
    /\ eval.arg[1].mode = "token"
    /\ configuredSecret = Some(Secret) /\ presentedSecret = Some(Wrong)
    /\ eval.result = [ok |-> FALSE, reason |-> << "token", "mismatch" >>]

\* The password of the other mode does not authorize.
C33_WitnessOtherSecret ==
    /\ authorized
    /\ eval.arg[1].mode = "password"
    /\ eval.arg[1].token = Some(Secret) /\ eval.arg[2].token = Some(Secret)
    /\ eval.arg[1].password = Some(Secret) /\ eval.arg[2].password = Unset
    /\ ~eval.result.ok

\* C34: a socket that opens resets reconnectAttempt to 0, and a socket
\* that closes or fails while no disconnect() is in force adds exactly one
\* to it.
C34_AttemptCountsFailures ==
    [][/\ (\E s \in SockIds : SockOpen(s)) => client'.reconnectAttempt = 0
       /\ ((\E s \in SockIds : SockFail(s) \/ SockClose(s)) /\ ~client.closing) =>
             client'.reconnectAttempt = client.reconnectAttempt + 1]_vars

\* C35: a socket that is open has its heartbeat running and has been sent a
\* ping since it opened, and a ping is only ever sent on an open socket whose
\* open handler has run.
C35_HeartbeatWhileOpen ==
    \A s \in SockIds :
        /\ sock[s].state = "OPEN" => sock[s].heartbeat /\ sock[s].pings > 0
        /\ sock[s].pings > 0 => sock[s].opened

\* C36: after a connect() call has rejected and until connect() is called
\* again, no reconnect timer is pending and no socket is connecting.
C36_QuietAfterReject ==
    hist.rejected =>
        /\ client.reconnectTimer = "none"
        /\ \A s \in SockIds : sock[s].state # "CONNECTING"

\* Socket s is not the client's socket and a newer socket is.
superseded(s) == sock[s].state # "free" /\ client.ws # 0 /\ client.ws # s

\* C37: an event of a superseded socket leaves the connected flag, the
\* reconnect counter and the reconnect timer as they were.
C37_SupersededSilent ==
    [][\A s \in SockIds :
          superseded(s) /\ (SockOpen(s) \/ SockFail(s) \/ SockError(s) \/ SockClose(s)) =>
              /\ client'.connected = client.connected
              /\ client'.reconnectAttempt = client.reconnectAttempt
              /\ client'.reconnectTimer = client.reconnectTimer]_vars

\* C38: a send is rejected by the rate limit only when its own caller, one
\* account's sender, has made the window's 20 sends to that normalized
\* target: the sends of another account never get it rejected.
C38_WindowPerAccount ==
    \A c \in Callers :
        calls[c].pc = "failed" =>
            obs[normalizeTarget(calls[c].target)].by[c] >= RATE_LIMIT_MAX_MESSAGES

\* C39: while a call of startAccount is inside its monitor, the account has
\* its entry in clientInstances and its target registered under the monitor's
\* webhook path, whatever an earlier call for the same account id does.
C39_MonitorRegistered ==
    \A r \in DOMAIN gw :
        gw[r].pc = "monitoring" =>
            /\ accountOf(r) \in clientInstances
            /\ has(targetsAt(webhookTargets, gw[r].path), accountOf(r))

====
